---- MODULE Spec2Model ----
(***************************************************************************)
(* Model of the rtfcre translation transcoder: the Plover translation      *)
(* parser and its RTF formatter (src/src/translation.rs), the RTF          *)
(* translation parser and its Plover formatter                             *)
(* (src/src/translation_parse.rs), over the directive model of             *)
(* src/src/translation_model.rs; and of the dictionary built on them: the  *)
(* container of src/src/dict.rs with its writer, and the file parser of    *)
(* src/src/rtf.rs.                                                         *)
(*                                                                         *)
(* A string is a sequence of Unicode code points (naturals).  A parser of  *)
(* the nom library is an operator from the remaining input to a result     *)
(* record: ok (matched), panic (the Rust code aborted inside the parser),   *)
(* rest (the input left over) and obj (the directive produced).            *)
(***************************************************************************)
EXTENDS Integers, Sequences, FiniteSets, TLC

VARIABLES
  direction,  \* the entry point being run: "plover_to_rtf" or "rtf_to_plover"
  tl,         \* its argument
  remaining,  \* the input the parser has not consumed yet
  items,      \* the directives parsed so far
  depth,      \* the number of nested calls of the recursive parser
  status,     \* "parsing", "parsed", "done", "panic" or "overflow"
  output,     \* the string returned (when status = "done")
  history,    \* the completed conversions of this chain, oldest first
  cre_system,       \* Dictionary.cre_system
  entries,          \* Dictionary.entries, in iteration order
  reverse_entries,  \* Dictionary.reverse_entries
  longest_key,      \* Dictionary.longest_key
  first_seen,       \* the present stenos, in the order they became present
  calls,            \* the number of calls made on the dictionary
  file,             \* what parse_rtf was given (NoFile if it was not called)
  written,          \* what Dictionary::write has written
  dstatus           \* "ready", "written", or how the last call ended otherwise

tvars == <<direction, tl, remaining, items, depth, status, output, history>>

dvars == <<cre_system, entries, reverse_entries, longest_key, first_seen,
           calls, file, written, dstatus>>

vars == <<direction, tl, remaining, items, depth, status, output, history,
          cre_system, entries, reverse_entries, longest_key, first_seen,
          calls, file, written, dstatus>>

----------------------------------------------------------------------------
(* Characters and strings *)

AsciiLow == " !"
AsciiMid == "#$%&'()*+,-./0123456789:;<=>?@ABCDEFGHIJKLMNOPQRSTUVWXYZ["
AsciiUnd == "]^_"
AsciiHigh == "abcdefghijklmnopqrstuvwxyz{|}~"
\* the printable ASCII characters, code points 32..126, in order (96 is a filler)
Ascii == AsciiLow \o "\"" \o AsciiMid \o "\\" \o AsciiUnd \o "?" \o AsciiHigh

\* code point of a printable ASCII character, of a newline and of a tab
OrdOf == [c \in {SubSeq(Ascii, i, i) : i \in (1..Len(Ascii)) \ {65}} \cup {"\n", "\t"} |->
            IF c = "\n" THEN 10
            ELSE IF c = "\t" THEN 9
            ELSE 31 + CHOOSE i \in (1..Len(Ascii)) \ {65} : SubSeq(Ascii, i, i) = c]

\* a string literal as its sequence of code points
Str(s) == [i \in 1..Len(s) |-> OrdOf[SubSeq(s, i, i)]]

\* one character literal
Chr(c) == OrdOf[c]

Take(s, n) == SubSeq(s, 1, n)
Drop(s, n) == SubSeq(s, n + 1, Len(s))

\* str::starts_with / nom tag
StartsWith(s, t) == Len(s) >= Len(t) /\ SubSeq(s, 1, Len(t)) = t

\* str::ends_with
EndsWith(s, t) == Len(s) >= Len(t) /\ SubSeq(s, Len(s) - Len(t) + 1, Len(s)) = t

\* char::to_lowercase on the code points of the model (ASCII, Latin-1 and
\* the pairs U+0100..U+012F of Latin Extended-A)
ToLowerChar(c) ==
  IF (c >= 65 /\ c <= 90) \/ (c >= 192 /\ c <= 222 /\ c # 215) THEN c + 32
  ELSE IF c >= 256 /\ c <= 302 /\ c % 2 = 0 THEN c + 1
  ELSE c

\* str::to_lowercase
to_lowercase(s) == [i \in 1..Len(s) |-> ToLowerChar(s[i])]

\* nom tag_no_case
StartsWithNoCase(s, t) ==
  Len(s) >= Len(t) /\ to_lowercase(SubSeq(s, 1, Len(t))) = to_lowercase(t)

\* offset of the first occurrence of t in s, -1 when there is none (str::find)
Find(s, t) ==
  IF \E i \in 0..(Len(s) - Len(t)) : SubSeq(s, i + 1, i + Len(t)) = t
  THEN CHOOSE i \in 0..(Len(s) - Len(t)) :
         /\ SubSeq(s, i + 1, i + Len(t)) = t
         /\ \A j \in 0..(i - 1) : SubSeq(s, j + 1, j + Len(t)) # t
  ELSE -1

\* str::contains
Contains(s, t) == Find(s, t) >= 0

\* number of leading characters of s that belong to the set cs
\* (nom take_while / take_till with the complement set)
SpanIn(s, cs) ==
  IF \E i \in 1..Len(s) : s[i] \notin cs
  THEN (CHOOSE i \in 1..Len(s) : s[i] \notin cs /\ \A j \in 1..(i - 1) : s[j] \in cs) - 1
  ELSE Len(s)

\* number of leading characters of s that do not belong to the set cs
SpanNotIn(s, cs) ==
  IF \E i \in 1..Len(s) : s[i] \in cs
  THEN (CHOOSE i \in 1..Len(s) : s[i] \in cs /\ \A j \in 1..(i - 1) : s[j] \notin cs) - 1
  ELSE Len(s)

\* first tag of the ordered list tags that is a prefix of s (nom alt of tags);
\* 0 when none is
AltTag(s, tags) ==
  IF \E i \in 1..Len(tags) : StartsWith(s, tags[i])
  THEN CHOOSE i \in 1..Len(tags) :
         StartsWith(s, tags[i]) /\ \A j \in 1..(i - 1) : ~StartsWith(s, tags[j])
  ELSE 0

\* Unicode White_Space code points of the model (char::is_whitespace)
WhiteSpace == {9, 10, 11, 12, 13, 32, 133, 160}

\* str::trim
trim(s) ==
  LET a == SpanIn(s, WhiteSpace)
      t == Drop(s, a)
      b == IF t = <<>> THEN 0
           ELSE CHOOSE k \in 1..Len(t) :
                  t[k] \notin WhiteSpace /\ \A j \in (k + 1)..Len(t) : t[j] \in WhiteSpace
  IN Take(t, b)

\* concatenation of a sequence of strings (Vec<String>::join(""))
RECURSIVE join(_)
join(ss) == IF ss = <<>> THEN <<>> ELSE Head(ss) \o join(Tail(ss))

\* decimal rendering of a natural (format!("{}", n))
RECURSIVE Decimal(_)
Decimal(n) == IF n < 10 THEN <<48 + n>> ELSE Decimal(n \div 10) \o <<48 + (n % 10)>>

----------------------------------------------------------------------------
(* Directive model: src/src/translation_model.rs *)

None == <<>>
Some(x) == <<x>>

\* a directive: tag t, string payload s, optional payloads o1 and o2, enum payload m
Object(t, s, o1, o2, m) == [t |-> t, s |-> s, o1 |-> o1, o2 |-> o2, m |-> m]

Unit(t) == Object(t, <<>>, None, None, "")
WithString(t, s) == Object(t, s, None, None, "")
WithArg(t, name, arg) == Object(t, name, arg, None, "")
RawString(s) == WithString("RawString", s)
Currency(left, right) == Object("Currency", <<>>, left, right, "")
CaseMode(case) == Object("CaseMode", <<>>, None, None, case)
SpaceMode(space) == Object("SpaceMode", <<>>, space, None, "")
Paragraph(mode) == Object("Paragraph", <<>>, None, None, mode)

----------------------------------------------------------------------------
(* Parser results *)

Fail == [ok |-> FALSE, panic |-> FALSE, rest |-> <<>>, obj |-> Unit("none")]
Panic == [ok |-> FALSE, panic |-> TRUE, rest |-> <<>>, obj |-> Unit("none")]
Ok(rest, obj) == [ok |-> TRUE, panic |-> FALSE, rest |-> rest, obj |-> obj]

----------------------------------------------------------------------------
(* Plover translation parser: src/src/translation.rs *)

\* macro opt!: an absent or empty argument is None
opt_macro(i) == IF i = None \/ i = Some(<<>>) THEN None ELSE i

\* Option::unwrap panics on None
IsNone(o) == o = None

escaped(input) ==
  IF AltTag(input, <<Str("\\\\"), Str("\\{"), Str("\\}")>>) # 0
  THEN Ok(Drop(input, 2), RawString(SubSeq(input, 2, 2)))
  ELSE Fail

cancel(input) ==
  IF StartsWith(input, Str("{}")) THEN Ok(Drop(input, 2), Unit("Cancel")) ELSE Fail

noop(input) ==
  IF StartsWith(input, Str("{#}")) THEN Ok(Drop(input, 3), Unit("Noop")) ELSE Fail

\* nom space1: one or more spaces or tabs
spaces(input) ==
  IF ~StartsWith(input, Str("{")) THEN Fail
  ELSE LET n == SpanIn(Drop(input, 1), {Chr(" "), Chr("\t")})
       IN IF n >= 1 /\ StartsWith(Drop(input, 1 + n), Str("}"))
          THEN Ok(Drop(input, n + 2), Unit("Space"))
          ELSE Fail

\* tuple((tag(":"), take_while(|c| c != '}'))): the result is the Option that
\* opt(argument) yields, with the input left over
argument(input) ==
  IF StartsWith(input, Str(":"))
  THEN LET n == SpanNotIn(Drop(input, 1), {Chr("}")})
       IN [arg |-> Some(SubSeq(input, 2, 1 + n)), rest |-> Drop(input, 1 + n)]
  ELSE [arg |-> None, rest |-> input]

command(input) ==
  IF ~StartsWithNoCase(input, Str("{plover:")) THEN Fail
  ELSE LET i1 == Drop(input, 8)
           n == SpanNotIn(i1, {Chr(":"), Chr("}")})
           cmd_name == Take(i1, n)
           a == argument(Drop(i1, n))
       IN IF StartsWith(a.rest, Str("}"))
          THEN Ok(Drop(a.rest, 1), WithArg("Command", to_lowercase(cmd_name), opt_macro(a.arg)))
          ELSE Fail

\* str::split(":") collected into a Vec: the first two parts
SplitFirst(arg, sep) == Take(arg, Find(arg, sep))
SplitSecond(arg, sep) ==
  LET t == Drop(arg, Find(arg, sep) + 1)
  IN IF Contains(t, sep) THEN Take(t, Find(t, sep)) ELSE t

\* the mapping of a mode name shared by meta's "mode" arm and mode
ModeTable(x) ==
  CASE x = Str("reset_case") -> Some(CaseMode("Sentence"))
    [] x = Str("lower") -> Some(CaseMode("Lower"))
    [] x = Str("title") -> Some(CaseMode("Title"))
    [] x = Str("caps") -> Some(CaseMode("Upper"))
    [] x = Str("camel") -> Some(CaseMode("Camel"))
    [] x = Str("snake") -> Some(CaseMode("Snake"))
    [] x = Str("reset_space") -> Some(SpaceMode(None))
    [] x = Str("reset") -> Some(Unit("ResetCaseAndSpace"))
    [] OTHER -> None

\* the match of meta on the lower-cased name; a record with panic set when an
\* unwrap or a slice aborts
MetaObject(meta_name, meta_arg) ==
  LET name == to_lowercase(meta_name)
      arg == opt_macro(meta_arg)
      done(o) == [panic |-> FALSE, obj |-> o]
      abort == [panic |-> TRUE, obj |-> Unit("none")]
  IN CASE name = Str("glue") ->
            IF IsNone(arg) THEN abort ELSE done(WithString("Fingerspell", arg[1]))
       [] name \in {Str("stop"), Str("comma")} ->
            IF IsNone(arg) THEN abort ELSE done(WithString("Punctuation", arg[1]))
       [] name = Str("key_combo") ->
            IF IsNone(arg) THEN abort ELSE done(WithString("KeyCombo", arg[1]))
       [] name = Str("case") ->
            IF IsNone(arg) THEN abort
            ELSE CASE arg[1] = Str("cap_first_word") -> done(Unit("ForceCapitalize"))
                   [] arg[1] = Str("upper_first_word") -> done(Unit("ForceCapitalizeWord"))
                   [] arg[1] = Str("lower_first_char") -> done(Unit("ForceLowercase"))
                   [] OTHER -> done(WithArg("Meta", name, Some(arg[1])))
       [] name = Str("attach") ->
            IF IsNone(meta_arg) THEN done(Unit("AttachRaw"))
            ELSE LET x == meta_arg[1]
                 IN CASE x = Str(" ") -> done(Unit("HardSpace"))
                      [] x # Str(" ") /\ StartsWith(x, Str("^")) ->
                           done(WithString("AttachSuffix", Drop(x, 1)))
                      [] x # Str(" ") /\ ~StartsWith(x, Str("^")) /\ EndsWith(x, Str("^")) ->
                           done(WithString("AttachPrefix", Take(x, Len(x) - 1)))
                      [] OTHER -> done(WithString("AttachInfix", x))
       [] name = Str("carry_capitalize") ->
            IF IsNone(meta_arg) THEN done(WithString("CarryCapRaw", <<>>))
            ELSE LET x == meta_arg[1]
                 IN CASE StartsWith(x, Str("^")) /\ EndsWith(x, Str("^")) ->
                           \* x[1..x.len() - 1] aborts when the range is 1..0
                           IF Len(x) - 1 < 1 THEN abort
                           ELSE done(WithString("CarryCapInfix", SubSeq(x, 2, Len(x) - 1)))
                      [] StartsWith(x, Str("^")) /\ ~EndsWith(x, Str("^")) ->
                           done(WithString("CarryCapSuffix", Drop(x, 1)))
                      [] ~StartsWith(x, Str("^")) /\ EndsWith(x, Str("^")) ->
                           done(WithString("CarryCapPrefix", Take(x, Len(x) - 1)))
                      [] OTHER -> done(WithString("CarryCapRaw", x))
       [] name = Str("retro_case") ->
            IF IsNone(arg) THEN abort
            ELSE CASE arg[1] = Str("cap_first_word") -> done(Unit("RetroForceCapitalize"))
                   [] arg[1] = Str("upper_first_word") -> done(Unit("RetroForceCapitalizeWord"))
                   [] arg[1] = Str("lower_first_char") -> done(Unit("RetroForceLowercase"))
                   [] OTHER -> done(WithArg("Meta", name, Some(arg[1])))
       [] name = Str("stitch") ->
            IF IsNone(arg) THEN abort
            ELSE done(WithString("Stitch",
                   IF Contains(arg[1], Str(":")) THEN SplitFirst(arg[1], Str(":")) ELSE arg[1]))
       [] name = Str("command") ->
            IF IsNone(arg) THEN abort
            ELSE IF Contains(arg[1], Str(":"))
                 THEN done(WithArg("Command", to_lowercase(SplitFirst(arg[1], Str(":"))),
                                   Some(SplitSecond(arg[1], Str(":")))))
                 ELSE done(WithArg("Command", to_lowercase(arg[1]), None))
       [] name = Str("mode") ->
            IF IsNone(arg) THEN abort
            ELSE IF ModeTable(arg[1]) # None THEN done(ModeTable(arg[1])[1])
                 ELSE IF StartsWith(arg[1], Str("set_space:"))
                      THEN done(SpaceMode(Some(Drop(arg[1], 10))))
                      ELSE done(WithArg("Meta", name, arg))
       [] OTHER -> done(WithArg("Meta", name, arg))

meta(input) ==
  IF ~StartsWith(input, Str("{:")) THEN Fail
  ELSE LET i1 == Drop(input, 2)
           n == SpanNotIn(i1, {Chr(":"), Chr("}")})
           meta_name == Take(i1, n)
           a == argument(Drop(i1, n))
       IN IF StartsWith(a.rest, Str("}"))
          THEN LET r == MetaObject(meta_name, a.arg)
               IN IF r.panic THEN Panic ELSE Ok(Drop(a.rest, 1), r.obj)
          ELSE Fail

\* tuple((tag(open), take_until(until), tag(close))): the text between open and
\* the first occurrence of until, which close must follow at once
Between(input, open, until, close) ==
  IF ~StartsWith(input, open) THEN [ok |-> FALSE, text |-> <<>>, rest |-> <<>>]
  ELSE LET i1 == Drop(input, Len(open))
           k == Find(i1, until)
       IN IF k >= 0 /\ StartsWith(Drop(i1, k), close)
          THEN [ok |-> TRUE, text |-> Take(i1, k), rest |-> Drop(i1, k + Len(close))]
          ELSE [ok |-> FALSE, text |-> <<>>, rest |-> <<>>]

\* the same with tag_no_case for the opening tag
BetweenNoCase(input, open, until, close) ==
  IF StartsWithNoCase(input, open)
  THEN Between(open \o Drop(input, Len(open)), open, until, close)
  ELSE [ok |-> FALSE, text |-> <<>>, rest |-> <<>>]

mode_space(input) ==
  LET b == BetweenNoCase(input, Str("{mode:set_space:"), Str("}"), Str("}"))
  IN IF b.ok
     THEN Ok(b.rest, SpaceMode(IF b.text = Str(" ") THEN None ELSE Some(b.text)))
     ELSE Fail

mode(input) ==
  LET b == BetweenNoCase(input, Str("{mode:"), Str("}"), Str("}"))
  IN IF b.ok
     THEN Ok(b.rest, IF ModeTable(to_lowercase(b.text)) # None
                     THEN ModeTable(to_lowercase(b.text))[1]
                     ELSE RawString(<<>>))
     ELSE Fail

prefix_attach(input) ==
  LET b == Between(input, Str("{"), Str("^"), Str("^}"))
  IN IF b.ok THEN Ok(b.rest, WithString("AttachPrefix", b.text)) ELSE Fail

suffix_attach(input) ==
  LET b == Between(input, Str("{^"), Str("}"), Str("}"))
  IN IF b.ok THEN Ok(b.rest, WithString("AttachSuffix", b.text)) ELSE Fail

infix_attach(input) ==
  LET b == Between(input, Str("{^"), Str("^"), Str("^}"))
  IN IF b.ok
     THEN Ok(b.rest, IF b.text = Str(" ") THEN Unit("HardSpace")
                     ELSE WithString("AttachInfix", b.text))
     ELSE Fail

prefix_carry_cap(input) ==
  LET b == Between(input, Str("{~|"), Str("^"), Str("^}"))
  IN IF b.ok THEN Ok(b.rest, WithString("CarryCapPrefix", b.text)) ELSE Fail

suffix_carry_cap(input) ==
  LET b == Between(input, Str("{~|^"), Str("}"), Str("}"))
  IN IF b.ok THEN Ok(b.rest, WithString("CarryCapSuffix", b.text)) ELSE Fail

infix_carry_cap(input) ==
  LET b == Between(input, Str("{~|^"), Str("^"), Str("^}"))
  IN IF b.ok THEN Ok(b.rest, WithString("CarryCapInfix", b.text)) ELSE Fail

raw_carry_cap(input) ==
  LET b == Between(input, Str("{~|"), Str("}"), Str("}"))
  IN IF b.ok THEN Ok(b.rest, WithString("CarryCapRaw", b.text)) ELSE Fail

glue(input) ==
  LET b == Between(input, Str("{&"), Str("}"), Str("}"))
  IN IF b.ok THEN Ok(b.rest, WithString("Fingerspell", b.text)) ELSE Fail

key_combo(input) ==
  LET b == Between(input, Str("{#"), Str("}"), Str("}"))
  IN IF b.ok THEN Ok(b.rest, WithString("KeyCombo", b.text)) ELSE Fail

PunctuationTags ==
  <<Str("..."), Str("--"), Str("-"), Str("."), Str(","), Str(":"), Str(";"), Str("?"),
    Str("!")>>

punctuation(input) ==
  IF ~StartsWith(input, Str("{")) THEN Fail
  ELSE LET k == AltTag(Drop(input, 1), PunctuationTags)
       IN IF k # 0 /\ StartsWith(Drop(input, 1 + Len(PunctuationTags[k])), Str("}"))
          THEN Ok(Drop(input, 2 + Len(PunctuationTags[k])),
                  WithString("Punctuation", PunctuationTags[k]))
          ELSE Fail

OperatorTags ==
  <<Str("^"), Str("-|"), Str("*-|"), Str("*+"), Str("*?"), Str("*!"), Str("*<"), Str("*>"),
    Str("*"), Str("<"), Str(">"), Str("|"), Str("'"), Str("l+"), Str("l-")>>

OperatorObject(oper) ==
  CASE oper = Str("^") -> Unit("AttachRaw")
    [] oper = Str("*") -> Unit("RetroToggleStar")
    [] oper = Str("*+") -> Unit("RepeatLastStroke")
    [] oper = Str("*?") -> Unit("RetroInsertSpace")
    [] oper = Str("*!") -> Unit("RetroDeleteSpace")
    [] oper \in {Str("-|"), Str("l-")} -> Unit("ForceCapitalize")
    [] oper = Str("*-|") -> Unit("RetroForceCapitalize")
    [] oper = Str("<") -> Unit("ForceCapitalizeWord")
    [] oper = Str("*<") -> Unit("RetroForceCapitalizeWord")
    [] oper \in {Str(">"), Str("l+")} -> Unit("ForceLowercase")
    [] oper = Str("*>") -> Unit("RetroForceLowercase")
    [] OTHER -> RawString(oper)

operator(input) ==
  IF ~StartsWith(input, Str("{")) THEN Fail
  ELSE LET k == AltTag(Drop(input, 1), OperatorTags)
       IN IF k # 0 /\ StartsWith(Drop(input, 1 + Len(OperatorTags[k])), Str("}"))
          THEN Ok(Drop(input, 2 + Len(OperatorTags[k])), OperatorObject(OperatorTags[k]))
          ELSE Fail

par(input) ==
  IF ~StartsWithNoCase(input, Str("{#return}{#return}")) THEN Fail
  ELSE LET i1 == Drop(input, 18)
       IN IF StartsWith(i1, Str("    "))
          THEN Ok(Drop(i1, 4), Paragraph("Contin"))
          ELSE Ok(i1, Paragraph("Default"))

\* tuple((tag(open), take_until("c"), tag("c"), take_until(until), tag(close)))
CurrencyParts(input, open, until, close) ==
  IF ~StartsWith(input, open) THEN [ok |-> FALSE, pre |-> <<>>, post |-> <<>>, rest |-> <<>>]
  ELSE LET i1 == Drop(input, Len(open))
           k == Find(i1, Str("c"))
           i2 == Drop(i1, k + 1)
           j == Find(i2, until)
       IN IF k >= 0 /\ j >= 0 /\ StartsWith(Drop(i2, j), close)
          THEN [ok |-> TRUE, pre |-> Take(i1, k), post |-> Take(i2, j),
                rest |-> Drop(i2, j + Len(close))]
          ELSE [ok |-> FALSE, pre |-> <<>>, post |-> <<>>, rest |-> <<>>]

\* match x { "" => None, x => Some(x) }
NonEmpty(x) == IF x = <<>> THEN None ELSE Some(x)

currency_meta(input) ==
  LET c == CurrencyParts(input, Str("{:retro_currency:"), Str("}"), Str("}"))
  IN IF c.ok THEN Ok(c.rest, Currency(NonEmpty(c.pre), NonEmpty(c.post))) ELSE Fail

currency(input) ==
  LET c == CurrencyParts(input, Str("{*("), Str(")"), Str(")}"))
  IN IF c.ok THEN Ok(c.rest, Currency(NonEmpty(c.pre), NonEmpty(c.post))) ELSE Fail

anything_between_braces(input) ==
  LET b == Between(input, Str("{"), Str("}"), Str("}"))
  IN IF b.ok THEN Ok(b.rest, RawString(b.text)) ELSE Fail

\* take_till succeeds on an empty match
raw(input) ==
  LET n == SpanNotIn(input, {Chr("{"), Chr("\\")})
  IN Ok(Drop(input, n), RawString(Take(input, n)))

\* the result of a parser that produces the whole directive list
macro_(input) ==
  IF ~StartsWith(input, Str("=")) THEN Fail
  ELSE LET i1 == Drop(input, 1)
           n == SpanNotIn(i1, {Chr(":")})
           name == to_lowercase(Take(i1, n))
           a == argument(Drop(i1, n))
       IN Ok(a.rest,
             CASE name = Str("undo") -> Unit("DeleteStroke")
               [] name = Str("repeat_last_stroke") -> Unit("RepeatLastStroke")
               [] name = Str("retrospective_toggle_asterisk") -> Unit("RetroToggleStar")
               [] name = Str("retrospective_insert_space") -> Unit("RetroInsertSpace")
               [] name = Str("retrospective_delete_space") -> Unit("RetroDeleteSpace")
               [] OTHER -> WithArg("Macro", name, opt_macro(a.arg)))

\* nom alt over an ordered list of results: the first that matched or aborted
RECURSIVE Alt(_)
Alt(rs) ==
  IF rs = <<>> THEN Fail
  ELSE IF Head(rs).ok \/ Head(rs).panic THEN Head(rs)
       ELSE Alt(Tail(rs))

\* alt(parsers) of rest, in the order of the tuple
rest_first(input) ==
  Alt(<<escaped(input), spaces(input), cancel(input), noop(input), par(input),
        command(input), mode_space(input), mode(input), glue(input), currency(input),
        currency_meta(input), key_combo(input), punctuation(input), operator(input),
        meta(input),
        Alt(<<infix_carry_cap(input), prefix_carry_cap(input), suffix_carry_cap(input),
              raw_carry_cap(input)>>),
        Alt(<<infix_attach(input), suffix_attach(input), prefix_attach(input)>>),
        anything_between_braces(input), raw(input)>>)


----------------------------------------------------------------------------
(* Plover to RTF formatter: src/src/translation.rs *)

\* EscapeChar leaving the hyphen as it is
EscapeChar_plain_hyphen(c) ==
  CASE c \in {Chr("{"), Chr("}"), Chr("\\")} -> <<Chr("\\"), c>>
    [] c = Chr("\n") -> Str("\\n")
    [] c = Chr("\t") -> Str("\\t")
    [] c > 255 -> Str("\\u") \o Decimal(c) \o Str(" ")
    [] OTHER -> <<c>>

\* EscapeChar escaping every code point above 127
EscapeChar_above127(c) ==
  CASE c \in {Chr("{"), Chr("}"), Chr("\\")} -> <<Chr("\\"), c>>
    [] c = Chr("-") -> Str("\\_")
    [] c = Chr("\n") -> Str("\\n")
    [] c = Chr("\t") -> Str("\\t")
    [] c > 127 -> Str("\\u") \o Decimal(c) \o Str(" ")
    [] OTHER -> <<c>>

\* the rendering of one character of a RawString
EscapeChar(c) ==
  CASE c \in {Chr("{"), Chr("}"), Chr("\\")} -> <<Chr("\\"), c>>
    [] c = Chr("-") -> Str("\\_")
    [] c = Chr("\n") -> Str("\\n")
    [] c = Chr("\t") -> Str("\\t")
    [] c > 255 -> Str("\\u") \o Decimal(c) \o Str(" ")
    [] OTHER -> <<c>>

\* OrEmpty rendering None as one space
OrEmpty_space(o) == IF o = None THEN Str(" ") ELSE o[1]

\* Option<String> rendered with None as the empty string
OrEmpty(o) == IF o = None THEN <<>> ELSE o[1]

\* "{\*\cxplvrNAME name}" or "{\*\cxplvrNAME name:arg}"
NamedGroup(label, name, arg) ==
  Str("{\\*\\") \o label \o Str(" ") \o name
    \o (IF arg = None THEN <<>> ELSE Str(":") \o arg[1]) \o Str("}")

\* the match of format_plover_to_rtf on one directive
ObjectToRtf(obj) ==
  CASE obj.t = "RawString" -> join([i \in 1..Len(obj.s) |-> EscapeChar(obj.s[i])])
    [] obj.t = "Command" -> NamedGroup(Str("cxplvrcmd"), obj.s, obj.o1)
    [] obj.t = "Meta" -> NamedGroup(Str("cxplvrmeta"), obj.s, obj.o1)
    [] obj.t = "Macro" -> NamedGroup(Str("cxplvrmac"), obj.s, obj.o1)
    [] obj.t = "Punctuation" -> Str("{\\cxp") \o obj.s \o Str(" }")
    [] obj.t = "SpaceMode" /\ obj.o1 # None /\ obj.o1 # Some(Str(" ")) ->
         Str("{\\*\\cxplvrspc ") \o obj.o1[1] \o Str("}")
    [] obj.t = "KeyCombo" -> Str("{\\*\\cxplvrkey ") \o trim(obj.s) \o Str("}")
    [] obj.t = "Fingerspell" -> Str("{\\cxfing ") \o obj.s \o Str("}")
    [] obj.t = "Stitch" -> Str("{\\cxstit ") \o obj.s \o Str("}")
    [] obj.t = "AttachSuffix" -> Str("{\\*\\cxplvrortho}\\cxds ") \o obj.s
    [] obj.t = "AttachPrefix" -> Str("{\\*\\cxplvrortho}") \o obj.s \o Str("\\cxds ")
    [] obj.t = "AttachInfix" ->
         Str("{\\*\\cxplvrortho}\\cxds ") \o obj.s \o Str("\\cxds ")
    [] obj.t = "CarryCapRaw" -> Str("{\\*\\cxplvrccap}") \o obj.s
    [] obj.t = "CarryCapSuffix" -> Str("{\\*\\cxplvrccap}\\cxds ") \o obj.s
    [] obj.t = "CarryCapPrefix" -> Str("{\\*\\cxplvrccap}") \o obj.s \o Str("\\cxds ")
    [] obj.t = "CarryCapInfix" -> Str("{\\*\\cxplvrccap}\\cxds ") \o obj.s \o Str("\\cxds ")
    [] obj.t = "Currency" ->
         Str("{\\*\\cxplvrcurr ") \o OrEmpty(obj.o1) \o Str("c") \o OrEmpty(obj.o2) \o Str("}")
    [] obj.t = "Noop" -> Str("{\\*\\cxplvrnop}")
    [] obj.t = "Cancel" -> Str("{\\*\\cxplvrcancel}")
    [] obj.t = "DeleteStroke" -> Str("\\cxdstroke ")
    [] obj.t = "RepeatLastStroke" -> Str("{\\*\\cxplvrrpt}")
    [] obj.t = "RetroToggleStar" -> Str("{\\*\\cxplvrast}")
    [] obj.t = "RetroInsertSpace" -> Str("{\\*\\cxplvrrtisp}")
    [] obj.t = "RetroDeleteSpace" -> Str("{\\*\\cxplvrrtdsp}")
    [] obj.t = "ForceCapitalize" -> Str("\\cxfc ")
    [] obj.t = "RetroForceCapitalize" -> Str("{\\*\\cxplvrrtfc}")
    [] obj.t = "ForceCapitalizeWord" -> Str("{\\*\\cxplvrfcw}")
    [] obj.t = "RetroForceCapitalizeWord" -> Str("{\\*\\cxplvrrtfcw}")
    [] obj.t = "ForceLowercase" -> Str("\\cxfl ")
    [] obj.t = "RetroForceLowercase" -> Str("{\\*\\cxplvrrtfl}")
    [] obj.t = "CaseMode" ->
         (CASE obj.m = "Sentence" -> Str("{\\*\\cxplvrcase0}")
            [] obj.m = "Lower" -> Str("{\\*\\cxplvrcase1}")
            [] obj.m = "Upper" -> Str("{\\*\\cxplvrcase2}")
            [] obj.m = "Title" -> Str("{\\*\\cxplvrcase3}")
            [] obj.m = "Camel" -> Str("{\\*\\cxplvrcase4\\cxplvrspc}")
            [] obj.m = "Snake" -> Str("{\\*\\cxplvrcase0\\cxplvrspc _}"))
    [] obj.t = "SpaceMode" /\ obj.o1 = Some(Str(" ")) -> Str("{{\\*\\cxplvrspc0}")
    [] obj.t = "SpaceMode" /\ obj.o1 = None -> Str("{\\*\\cxplvrspc0}")
    [] obj.t = "ResetCaseAndSpace" -> Str("{\\*\\cxplvrcase0\\cxplvrspc0}")
    [] obj.t = "AttachRaw" -> Str("\\cxds ")
    [] obj.t = "Paragraph" ->
         IF obj.m = "Default" THEN Str("\\par\\s0 ") ELSE Str("\\par\\s1 ")
    [] obj.t = "Space" -> Str(" ")
    [] obj.t = "HardSpace" -> Str("\\~")
    [] OTHER -> <<>>

\* the map and join of format_plover_to_rtf over the parsed directives
RtfOfItems(objs) == join([i \in 1..Len(objs) |-> ObjectToRtf(objs[i])])

----------------------------------------------------------------------------
(* RTF translation parser: src/src/translation_parse.rs *)

Digits == {Chr("0"), Chr("1"), Chr("2"), Chr("3"), Chr("4"), Chr("5"), Chr("6"), Chr("7"),
           Chr("8"), Chr("9")}

\* ASCII letters (nom alpha1)
Alpha == (65..90) \cup (97..122)

\* a digit string without its leading zeros
Canonical(ds) == Drop(ds, SpanIn(ds, {Chr("0")}))

\* a <= b for canonical digit strings
DigitsLeq(a, b) ==
  \/ Len(a) < Len(b)
  \/ /\ Len(a) = Len(b)
     /\ \/ a = b
        \/ \E i \in 1..Len(a) : a[i] < b[i] /\ \A j \in 1..(i - 1) : a[j] = b[j]

\* the value of a digit string, for values that fit the integers of the model
RECURSIVE DigitsValue(_)
DigitsValue(ds) ==
  IF ds = <<>> THEN 0 ELSE DigitsValue(Take(ds, Len(ds) - 1)) * 10 + (ds[Len(ds)] - 48)

\* recognize(tuple((opt(tag("-")), digit1))) then parse::<i32>().unwrap():
\* the unwrap aborts when the value is outside -2147483648..2147483647
number(input) ==
  LET neg == StartsWith(input, Str("-"))
      i1 == IF neg THEN Drop(input, 1) ELSE input
      n == SpanIn(i1, Digits)
      ds == Canonical(Take(i1, n))
  IN IF n = 0 THEN [ok |-> FALSE, panic |-> FALSE, val |-> 0, rest |-> input]
     ELSE IF neg /\ ds = Str("2147483648")
          THEN [ok |-> TRUE, panic |-> FALSE, val |-> (-2147483647) - 1, rest |-> Drop(i1, n)]
          ELSE IF DigitsLeq(ds, Str("2147483647"))
               THEN [ok |-> TRUE, panic |-> FALSE,
                     val |-> IF neg THEN 0 - DigitsValue(ds) ELSE DigitsValue(ds),
                     rest |-> Drop(i1, n)]
               ELSE [ok |-> FALSE, panic |-> TRUE, val |-> 0, rest |-> input]

\* digit1 then parse::<u32>().unwrap(): the unwrap aborts above 4294967295.
\* The value is kept as its canonical digit string (a u32 exceeds the
\* checker's integers).
positive_number(input) ==
  LET n == SpanIn(input, Digits)
      ds == Canonical(Take(input, n))
  IN IF n = 0 THEN [ok |-> FALSE, panic |-> FALSE, val |-> <<>>, rest |-> input]
     ELSE IF DigitsLeq(ds, Str("4294967295"))
          THEN [ok |-> TRUE, panic |-> FALSE, val |-> ds, rest |-> Drop(input, n)]
          ELSE [ok |-> FALSE, panic |-> TRUE, val |-> <<>>, rest |-> input]

\* std::char::from_u32 on a canonical digit string: None for a surrogate and
\* above 0x10FFFF
from_u32(ds) ==
  IF DigitsLeq(ds, Str("1114111")) /\ ~(DigitsValue(ds) \in 55296..57343)
  THEN Some(DigitsValue(ds))
  ELSE None

\* opt(tag(" "))
SkipSpace(input) == IF StartsWith(input, Str(" ")) THEN Drop(input, 1) ELSE input

long_group(input) ==
  CASE StartsWith(input, Str("{\\*\\cxplvrcase0\\cxplvrspc0}")) ->
         Ok(Drop(input, 27), Unit("ResetCaseAndSpace"))
    [] StartsWith(input, Str("{\\*\\cxplvrcase4\\cxplvrspc}")) ->
         Ok(Drop(input, 26), CaseMode("Camel"))
    [] StartsWith(input, Str("{\\*\\cxplvrcase0\\cxplvrspc _}")) ->
         Ok(Drop(input, 28), CaseMode("Snake"))
    [] OTHER -> Fail

\* tuple((tag("{\\*\\"), recognize(tuple((tag("cxplvr"), alpha1))), opt(number))):
\* the label, the optional number and the input left over
GroupHead(input) ==
  IF ~StartsWith(input, Str("{\\*\\cxplvr"))
  THEN [ok |-> FALSE, panic |-> FALSE, label |-> <<>>, num |-> None, rest |-> <<>>]
  ELSE LET i1 == Drop(input, 10)
           n == SpanIn(i1, Alpha)
           num == number(Drop(i1, n))
       IN IF n = 0
          THEN [ok |-> FALSE, panic |-> FALSE, label |-> <<>>, num |-> None, rest |-> <<>>]
          ELSE IF num.panic
               THEN [ok |-> FALSE, panic |-> TRUE, label |-> <<>>, num |-> None, rest |-> <<>>]
               ELSE [ok |-> TRUE, panic |-> FALSE, label |-> Str("cxplvr") \o Take(i1, n),
                     num |-> IF num.ok THEN Some(num.val) ELSE None,
                     rest |-> IF num.ok THEN num.rest ELSE Drop(i1, n)]

no_arg_group(input) ==
  LET h == GroupHead(input)
  IN IF h.panic THEN Panic
     ELSE IF ~h.ok \/ ~StartsWith(h.rest, Str("}")) THEN Fail
     ELSE Ok(Drop(h.rest, 1),
             CASE h.label = Str("cxplvrnop") -> Unit("Noop")
               [] h.label = Str("cxplvrcancel") -> Unit("Cancel")
               [] h.label = Str("cxplvrast") -> Unit("RetroToggleStar")
               [] h.label = Str("cxplvrrpt") -> Unit("RepeatLastStroke")
               [] h.label = Str("cxplvrrtisp") -> Unit("RetroInsertSpace")
               [] h.label = Str("cxplvrrtdsp") -> Unit("RetroDeleteSpace")
               [] h.label = Str("cxplvrcase") ->
                    CaseMode(CASE h.num = Some(0) -> "Sentence"
                               [] h.num = Some(1) -> "Lower"
                               [] h.num = Some(2) -> "Upper"
                               [] h.num = Some(3) -> "Title"
                               [] OTHER -> "Sentence")
               [] h.label = Str("cxplvrccap") -> WithString("CarryCapRaw", <<>>)
               [] h.label = Str("cxplvrrtfc") -> Unit("RetroForceCapitalize")
               [] h.label = Str("cxplvrrtfl") -> Unit("RetroForceLowercase")
               [] h.label = Str("cxplvrfcw") -> Unit("ForceCapitalizeWord")
               [] h.label = Str("cxplvrrtfcw") -> Unit("RetroForceCapitalizeWord")
               [] h.label = Str("cxplvrspc") -> SpaceMode(None)
               [] h.label = Str("cxplvrortho") -> Unit("OrthoAttach")
               [] OTHER -> RawString(<<>>))

\* macro object!: the argument split at its first ':' (splitn(2, ':'))
ObjectOfArg(t, arg) ==
  IF Contains(arg, Str(":"))
  THEN WithArg(t, Take(arg, Find(arg, Str(":"))), Some(Drop(arg, Find(arg, Str(":")) + 1)))
  ELSE WithArg(t, arg, None)

arg_group(input) ==
  LET h == GroupHead(input)
  IN IF h.panic THEN Panic
     ELSE IF ~h.ok \/ ~StartsWith(h.rest, Str(" ")) THEN Fail
     ELSE LET i1 == Drop(h.rest, 1)
              k == Find(i1, Str("}"))
              arg == Take(i1, k)
          IN IF k < 0 THEN Fail
             ELSE Ok(Drop(i1, k + 1),
                     CASE h.label = Str("cxplvrmeta") -> ObjectOfArg("Meta", arg)
                       [] h.label = Str("cxplvrmac") -> ObjectOfArg("Macro", arg)
                       [] h.label = Str("cxplvrcmd") -> ObjectOfArg("Command", arg)
                       [] h.label = Str("cxplvrspc") -> SpaceMode(Some(arg))
                       [] h.label = Str("cxplvrkey") -> WithString("KeyCombo", arg)
                       [] h.label = Str("cxplvrcurr") ->
                            IF Contains(arg, Str("c"))
                            THEN Currency(NonEmpty(Take(arg, Find(arg, Str("c")))),
                                          NonEmpty(Drop(arg, Find(arg, Str("c")) + 1)))
                            ELSE RawString(<<>>)
                       [] OTHER -> RawString(<<>>))

\* punct[..punct.len() - 1] aborts on an empty body and when the last
\* character is not one byte long
punc_group(input) ==
  IF ~StartsWith(input, Str("{\\cxp")) THEN Fail
  ELSE LET i1 == SkipSpace(Drop(input, 5))
           k == Find(i1, Str("}"))
           punct == Take(i1, k)
       IN IF k < 0 THEN Fail
          ELSE IF k = 0 \/ punct[k] > 127 THEN Panic
          ELSE Ok(Drop(i1, k + 1), WithString("Punctuation", Take(punct, k - 1)))

fing_group(input) ==
  LET b == Between(input, Str("{\\cxfing "), Str("}"), Str("}"))
  IN IF b.ok THEN Ok(b.rest, WithString("Fingerspell", b.text)) ELSE Fail

\* a parser that yields a string: ok, the text and the input left over
cxc_group(input) == Between(input, Str("{\\cxc "), Str("}"), Str("}"))

\* separated_list1(tag("|"), cxc_group) after its first element: the last
\* element parsed and the input left over
RECURSIVE SeparatedTail(_, _)
SeparatedTail(last, input) ==
  IF StartsWith(input, Str("|")) /\ cxc_group(Drop(input, 1)).ok
  THEN SeparatedTail(cxc_group(Drop(input, 1)).text, cxc_group(Drop(input, 1)).rest)
  ELSE [text |-> last, rest |-> input]

conf_group(input) ==
  IF ~StartsWith(input, Str("{\\cxconf [")) THEN Fail
  ELSE LET first == cxc_group(Drop(input, 10))
           l == SeparatedTail(first.text, first.rest)
       IN IF first.ok /\ StartsWith(l.rest, Str("]}"))
          THEN Ok(Drop(l.rest, 2), RawString(l.text))
          ELSE Fail

stit_group(input) ==
  LET b == Between(input, Str("{\\cxstit "), Str("}"), Str("}"))
  IN IF b.ok THEN Ok(b.rest, WithString("Stitch", b.text)) ELSE Fail

rtf_par(input) ==
  IF ~StartsWith(input, Str("\\par\\s")) THEN Fail
  ELSE LET style == number(Drop(input, 6))
       IN IF style.panic THEN Panic
          ELSE IF ~style.ok THEN Fail
          ELSE Ok(SkipSpace(style.rest),
                  Paragraph(IF style.val = 1 THEN "Contin" ELSE "Default"))

dstroke(input) ==
  IF StartsWith(input, Str("\\cxdstroke"))
  THEN Ok(SkipSpace(Drop(input, 10)), Unit("DeleteStroke"))
  ELSE Fail

fl_fc(input) ==
  CASE StartsWith(input, Str("\\cxfl")) -> Ok(SkipSpace(Drop(input, 5)), Unit("ForceLowercase"))
    [] StartsWith(input, Str("\\cxfc")) -> Ok(SkipSpace(Drop(input, 5)), Unit("ForceCapitalize"))
    [] OTHER -> Fail

dspace(input) ==
  IF StartsWith(input, Str("\\cxds"))
  THEN Ok(SkipSpace(Drop(input, 5)), Unit("AttachRaw"))
  ELSE Fail

\* from_u32(unicode).unwrap() aborts when the number is no Unicode scalar value
\* unicode without the optional space after the number
unicode_keeps_space(input) ==
  IF ~StartsWith(input, Str("\\u")) THEN Fail
  ELSE LET num == positive_number(Drop(input, 2))
       IN IF num.panic THEN Panic
          ELSE IF ~num.ok THEN Fail
          ELSE IF from_u32(num.val) = None THEN Panic
          ELSE Ok(num.rest, RawString(from_u32(num.val)))

unicode(input) ==
  IF ~StartsWith(input, Str("\\u")) THEN Fail
  ELSE LET num == positive_number(Drop(input, 2))
       IN IF num.panic THEN Panic
          ELSE IF ~num.ok THEN Fail
          ELSE IF from_u32(num.val) = None THEN Panic
          ELSE Ok(SkipSpace(num.rest), RawString(from_u32(num.val)))

hyphen(input) ==
  IF StartsWith(input, Str("\\_")) THEN Ok(Drop(input, 2), RawString(Str("-"))) ELSE Fail

rtf_escaped(input) ==
  IF AltTag(input, <<Str("\\\\"), Str("\\{"), Str("\\}"), Str("\\~"), Str("\\_")>>) = 0
  THEN Fail
  ELSE Ok(Drop(input, 2),
          CASE Take(input, 2) = Str("\\~") -> Unit("HardSpace")
            [] Take(input, 2) = Str("\\_") -> RawString(Str("-"))
            [] OTHER -> RawString(Take(input, 2)))

newline(input) ==
  IF AltTag(input, <<Str("\\n"), Str("\\t")>>) # 0
  THEN Ok(Drop(input, 2), RawString(Take(input, 2)))
  ELSE Fail

\* take_while succeeds on an empty match
plain_text(input) ==
  LET n == SpanNotIn(input, {Chr("\\"), Chr("{")})
  IN Ok(Drop(input, n), RawString(Take(input, n)))

\* alt(parsers) of objects, in the order of the tuple
objects_first(input) ==
  Alt(<<long_group(input), arg_group(input), no_arg_group(input), punc_group(input),
        fing_group(input), stit_group(input), conf_group(input), rtf_par(input),
        dstroke(input), fl_fc(input), dspace(input), rtf_escaped(input), hyphen(input),
        unicode(input), newline(input), plain_text(input)>>)

----------------------------------------------------------------------------
(* RTF to Plover formatter: src/src/translation_parse.rs *)

\* a regex of fix_attach whose group is (.+?): the text may hold braces
Sub_across_braces(pre, post, open, close, translation) ==
  IF /\ Len(translation) > Len(pre) + Len(post)
     /\ StartsWith(translation, pre)
     /\ EndsWith(translation, post)
  THEN open \o SubSeq(translation, Len(pre) + 1, Len(translation) - Len(post)) \o close
  ELSE translation

\* one regex of fix_attach, ^pre([^\{]+?)post$, and its replacement
\* open $1 close, applied with Regex::replace
Sub(pre, post, open, close, translation) ==
  LET mid == SubSeq(translation, Len(pre) + 1, Len(translation) - Len(post))
  IN IF /\ Len(translation) > Len(pre) + Len(post)
        /\ StartsWith(translation, pre)
        /\ EndsWith(translation, post)
        /\ ~Contains(mid, Str("{"))
     THEN open \o mid \o close
     ELSE translation

fix_attach(translation) ==
  LET infix == Sub(Str("{^}"), Str("{^}"), Str("{^"), Str("^}"), translation)
      prefix == Sub(<<>>, Str("{^}"), Str("{"), Str("^}"), infix)
      suffix == Sub(Str("{^}"), <<>>, Str("{^"), Str("}"), prefix)
      cc_infix == Sub(Str("{~|}{^}"), Str("{^}"), Str("{~|^"), Str("^}"), suffix)
      cc_prefix == Sub(Str("{~|}"), Str("{^}"), Str("{~|"), Str("^}"), cc_infix)
      cc_suffix == Sub(Str("{~|}{^}"), <<>>, Str("{~|^"), Str("}"), cc_prefix)
  IN Sub(Str("{~|}"), <<>>, Str("{~|"), Str("}"), cc_suffix)

\* the match of format_rtf_to_plover on one directive
ObjectToPlover(obj) ==
  CASE obj.t = "Paragraph" ->
         Str("{#return}{#return}") \o (IF obj.m = "Default" THEN <<>> ELSE Str("    "))
    [] obj.t = "Fingerspell" -> Str("{&") \o obj.s \o Str("}")
    [] obj.t = "Stitch" -> Str("{:stitch:") \o obj.s \o Str("}")
    [] obj.t = "Command" ->
         Str("{plover:") \o obj.s \o (IF obj.o1 = None THEN <<>> ELSE Str(":") \o obj.o1[1])
           \o Str("}")
    [] obj.t = "Meta" ->
         Str("{:") \o obj.s \o (IF obj.o1 = None THEN <<>> ELSE Str(":") \o obj.o1[1])
           \o Str("}")
    [] obj.t = "Macro" ->
         Str("=") \o obj.s \o (IF obj.o1 = None THEN <<>> ELSE Str(":") \o obj.o1[1])
    [] obj.t = "Currency" ->
         Str("{*(") \o OrEmpty(obj.o1) \o Str("c") \o OrEmpty(obj.o2) \o Str(")}")
    [] obj.t = "Punctuation" -> Str("{") \o obj.s \o Str("}")
    [] obj.t = "KeyCombo" -> Str("{#") \o obj.s \o Str("}")
    [] obj.t = "CaseMode" ->
         Str("{mode:") \o (CASE obj.m = "Sentence" -> Str("reset_case")
                             [] obj.m = "Lower" -> Str("lower")
                             [] obj.m = "Upper" -> Str("caps")
                             [] obj.m = "Title" -> Str("title")
                             [] obj.m = "Camel" -> Str("camel")
                             [] obj.m = "Snake" -> Str("snake")) \o Str("}")
    [] obj.t = "SpaceMode" /\ obj.o1 # None -> Str("{mode:set_space:") \o obj.o1[1] \o Str("}")
    [] obj.t = "Cancel" -> Str("{}")
    [] obj.t = "Noop" -> Str("{#}")
    [] obj.t = "DeleteStroke" -> Str("=undo")
    [] obj.t = "RepeatLastStroke" -> Str("{*+}")
    [] obj.t = "RetroToggleStar" -> Str("{*}")
    [] obj.t = "RetroInsertSpace" -> Str("{*?}")
    [] obj.t = "RetroDeleteSpace" -> Str("{*!}")
    [] obj.t = "HardSpace" -> Str("{^ ^}")
    [] obj.t = "RawString" -> obj.s
    [] obj.t = "ResetCaseAndSpace" -> Str("{mode:reset}")
    [] obj.t = "SpaceMode" /\ obj.o1 = None -> Str("{mode:reset_space}")
    [] obj.t = "AttachRaw" -> Str("{^}")
    [] obj.t = "OrthoAttach" -> <<>>
    [] obj.t = "CarryCapRaw" -> Str("{~|}")
    [] obj.t = "ForceCapitalize" -> Str("{-|}")
    [] obj.t = "ForceLowercase" -> Str("{>}")
    [] obj.t = "RetroForceCapitalize" -> Str("{*-|}")
    [] obj.t = "RetroForceLowercase" -> Str("{*>}")
    [] obj.t = "ForceCapitalizeWord" -> Str("{<}")
    [] obj.t = "RetroForceCapitalizeWord" -> Str("{*<}")
    [] OTHER -> <<>>

\* ortho_attach never set
ortho_attach_never(objs) == FALSE

\* ortho_attach set whatever the directives are
ortho_attach_always(objs) == TRUE

\* the flag ortho_attach after the map over the parsed directives
ortho_attach(objs) == \E i \in 1..Len(objs) : objs[i].t = "OrthoAttach"

\* the map, join and fixup of format_rtf_to_plover over the parsed directives
PloverOfItems(objs) ==
  LET joined == join([i \in 1..Len(objs) |-> ObjectToPlover(objs[i])])
  IN IF ortho_attach(objs) THEN fix_attach(joined) ELSE joined


----------------------------------------------------------------------------
(* Bounds and inputs *)

\* the number of nested parser calls the stack holds
MaxDepth == 12

\* the number of conversions in one chain (a translation converted, the
\* result converted back, ...)
MaxChain == 2

\* the longest plain text, payload and attached text of an input
MaxLen == 2

\* the longest side of a currency format of an input
MaxSideLen == 1

\* all strings over the characters cs of length at most n
RECURSIVE StringsUpTo(_, _)
StringsUpTo(cs, n) ==
  IF n = 0 THEN {<<>>}
  ELSE LET shorter == StringsUpTo(cs, n - 1)
       IN shorter \cup {Append(x, c) : x \in shorter, c \in cs}

\* characters of plain text: a letter, a space, '=', '-', newline, tab, and
\* the code points 128, 233, 255, 256, 20320
TextChars == {Chr("a"), Chr(" "), Chr("="), Chr("-"), Chr("\n"), Chr("\t"),
              128, 233, 255, 256, 20320}

PlainTexts == StringsUpTo(TextChars, MaxLen)

\* characters of a directive payload
PayloadChars == {Chr("a"), Chr("^"), Chr(" "), Chr(":"), Chr("c"), Chr("}")}

Payloads ==
  StringsUpTo(PayloadChars, MaxLen)
    \cup {Str("A"), Str("Ab"), Str("-"), Str("{"), Str("\\"), Str(")"), Str("a)"), <<20320>>,
          Str("a:b:c"), Str("A:B"), Str(" a "), Str("^a^"), Str("cap_first_word")}

\* characters of the text of an attach or carry-capitalize construct
AttachChars == {Chr("a"), Chr(" "), Chr("-"), Chr("."), Chr("="), Chr(":"), 20320}

AttachTexts == StringsUpTo(AttachChars, MaxLen) \ {<<>>}

\* {^X}, {X^}, {^X^} and the carry-capitalize forms
PloverAttachForms ==
  UNION {{Str("{^") \o x \o Str("}"), Str("{") \o x \o Str("^}"), Str("{^") \o x \o Str("^}"),
          Str("{~|^") \o x \o Str("}"), Str("{~|") \o x \o Str("^}"),
          Str("{~|^") \o x \o Str("^}"), Str("{~|") \o x \o Str("}")} : x \in AttachTexts}

\* characters of the sides of a currency format
SideChars == {Chr("$"), Chr(" "), Chr("c"), Chr(")"), Chr("}"), Chr("{")}

Sides == StringsUpTo(SideChars, MaxSideLen)

\* {*(XcY)} and {*(Xc Y)}
PloverCurrencyForms ==
  {Str("{*(") \o x \o Str("c") \o sp \o y \o Str(")}") :
     x \in Sides, y \in Sides, sp \in {<<>>, Str(" ")}}

\* what follows the opening brace of a Plover construct
PloverHeads ==
  {<<>>, Str("^"), Str("~|"), Str("~|^"), Str("&"), Str("#"), Str(":"), Str(":a"), Str(":a:"),
   Str("plover:"), Str("PLOVER:"), Str("mode:"), Str("MODE:"), Str("mode:set_space:"),
   Str("*("), Str(":retro_currency:"), Str(":attach"), Str(":attach:"),
   Str(":carry_capitalize"), Str(":carry_capitalize:"), Str(":command:"),
   Str(":mode:set_space:"), Str(":stitch:"), Str(":glue:"), Str(":stop:"),
   Str(":key_combo:")}

\* the meta names whose argument is unwrapped
UnwrapNames ==
  {Str("glue"), Str("stop"), Str("comma"), Str("key_combo"), Str("case"),
   Str("retro_case"), Str("stitch"), Str("command"), Str("mode")}

\* complete Plover constructs and fragments
PloverFixed ==
  {Str("{}"), Str("{#}"), Str("{ }"), Str("{\t }"), Str("{#return}{#return}"),
   Str("{#RETURN}{#return}    "), Str("{#return}{#return}    a"),
   Str("{...}"), Str("{--}"), Str("{-}"), Str("{.}"), Str("{,}"), Str("{:}"), Str("{;}"),
   Str("{?}"), Str("{!}"),
   Str("{^}"), Str("{-|}"), Str("{*-|}"), Str("{*+}"), Str("{*?}"), Str("{*!}"), Str("{*<}"),
   Str("{*>}"), Str("{*}"), Str("{<}"), Str("{>}"), Str("{|}"), Str("{'}"), Str("{l+}"),
   Str("{l-}"),
   Str("{mode:reset_case}"), Str("{mode:lower}"), Str("{MODE:Title}"), Str("{mode:caps}"),
   Str("{mode:camel}"), Str("{mode:snake}"), Str("{mode:reset_space}"), Str("{mode:reset}"),
   Str("{:mode:reset_case}"), Str("{:mode:lower}"), Str("{:mode:title}"), Str("{:mode:caps}"),
   Str("{:mode:camel}"), Str("{:mode:snake}"), Str("{:mode:reset_space}"),
   Str("{:mode:reset}"), Str("{:mode:other}"),
   Str("{:case:cap_first_word}"), Str("{:case:upper_first_word}"),
   Str("{:case:lower_first_char}"), Str("{:case:other}"),
   Str("{:retro_case:cap_first_word}"), Str("{:retro_case:upper_first_word}"),
   Str("{:retro_case:lower_first_char}"), Str("{:retro_case:other}"),
   Str("{:comma:,}"), Str("{:stitch:L:-}"), Str("{:command:LOOKUP}"),
   Str("=undo"), Str("=repeat_last_stroke"), Str("=retrospective_toggle_asterisk"),
   Str("=retrospective_insert_space"), Str("=retrospective_delete_space"),
   Str("=UNDO"), Str("=test_macro"), Str("=Test:Arg"), Str("=a:b}c"),
   Str("lookup{PLOVER:LOOKUP}{-|}{^ed}"), Str("{^ing}"), Str("{pre^}"), Str("{^...^}"),
   Str("{^ ^}"), Str("{~|^-esque}"), Str("{~|un-^}"), Str("{~|5}"),
   Str("{*($c)}"), Str("{*(c $)}"), Str("{*($c $)}"),
   Str("\\\\"), Str("\\{"), Str("\\}"), Str("\\a"), Str("a\\"), Str("a\\{b"),
   Str("{"), Str("a{"), Str("{a"), Str("}"), Str("a}"),
   Str("{:carry_capitalize:a^b^}"), Str("{~|a^b^}"), Str("{:carry_capitalize:^a^b^}"),
   Str("{~|^a^b^}"), Str("{:mode:CAPS}"), Str("{mode:set_space: }"),
   Str("{:mode:set_space: }"),
   Str("{a}{^}"), Str("{^a}{b^}"), Str("{-|}{^ing}"), Str("{*(c)}{ }{*(c)}")}
  \cup {Str("{:") \o n \o Str("}") : n \in UnwrapNames}
  \cup {Str("{:") \o n \o Str(":}") : n \in UnwrapNames}

\* the Plover translations given to plover_to_rtf
PloverInputs ==
  PlainTexts \cup PloverFixed \cup PloverAttachForms \cup PloverCurrencyForms
    \cup {Str("{") \o h \o x \o Str("}") : h \in PloverHeads, x \in Payloads}

\* the numbers after a control word
RtfNumbers ==
  {Str("0"), Str("1"), Str("2"), Str("3"), Str("4"), Str("-1"), Str("007"), Str("97"),
   Str("128"), Str("233"), Str("255"), Str("256"), Str("20320"), Str("55295"), Str("55296"), Str("57343"), Str("57344"),
   Str("1114111"), Str("1114112"), Str("2147483647"), Str("2147483648"), Str("-2147483648"),
   Str("-2147483649"), Str("4294967295"), Str("4294967296"), Str("99999999999")}

\* the opening of an RTF group, before its payload
RtfHeads ==
  {Str("{\\*\\cxplvrmeta "), Str("{\\*\\cxplvrmac "), Str("{\\*\\cxplvrcmd "),
   Str("{\\*\\cxplvrspc "), Str("{\\*\\cxplvrkey "), Str("{\\*\\cxplvrcurr "),
   Str("{\\*\\cxplvrfoo "), Str("{\\cxp"), Str("{\\cxp "), Str("{\\cxfing "),
   Str("{\\cxstit "), Str("{\\cxa "), Str("{")}

\* the attach primitives around a text, with and without the markers
RtfAttachForms ==
  {cc \o o \o l \o x \o r :
     cc \in {<<>>, Str("{\\*\\cxplvrccap}")}, o \in {<<>>, Str("{\\*\\cxplvrortho}")},
     l \in {<<>>, Str("\\cxds ")}, r \in {<<>>, Str("\\cxds ")}, x \in AttachTexts}

\* complete RTF constructs and fragments
RtfFixed ==
  {Str("{\\*\\cxplvrcase0\\cxplvrspc0}"), Str("{\\*\\cxplvrcase4\\cxplvrspc}"),
   Str("{\\*\\cxplvrcase0\\cxplvrspc _}"), Str("{\\*\\cxplvrnop}"), Str("{\\*\\cxplvrcancel}"),
   Str("{\\*\\cxplvrast}"), Str("{\\*\\cxplvrrpt}"), Str("{\\*\\cxplvrrtisp}"),
   Str("{\\*\\cxplvrrtdsp}"), Str("{\\*\\cxplvrccap}"), Str("{\\*\\cxplvrrtfc}"),
   Str("{\\*\\cxplvrrtfl}"), Str("{\\*\\cxplvrfcw}"), Str("{\\*\\cxplvrrtfcw}"),
   Str("{\\*\\cxplvrspc}"), Str("{\\*\\cxplvrortho}"), Str("{\\*\\cxplvrfoo}"),
   Str("{\\*\\cxplvr}"), Str("{\\cxp}"), Str("{\\cxp }"), Str("{\\cxp. }"),
   Str("{\\cxconf [{\\cxc first}|{\\cxc second}|{\\cxc last}]}"),
   Str("{\\cxconf [{\\cxc a}]}"), Str("{\\cxconf [{\\cxc a}|]}"), Str("{\\cxconf []}"),
   Str("{\\cxa Q. }"),
   Str("\\cxdstroke "), Str("\\cxdstroke"), Str("\\cxfc "), Str("\\cxfl"), Str("\\cxds"),
   Str("\\cxds ing"), Str("pre\\cxds "), Str("\\cxds ...\\cxds "),
   Str("\\\\"), Str("\\{"), Str("\\}"), Str("\\~"), Str("\\_"), Str("\\n"), Str("\\t"),
   Str("\\foo"), Str("\\*"), Str("a\\foo"), Str("\\u"), Str("\\par"), Str("\\par\\s"),
   Str("{"), Str("a{"), Str("{a}"), Str("}"),
   Str("mooo\\u21862 !{\\*\\cxplvrnop}test{\\*\\cxplvrast}"),
   Str("{\\*\\cxplvrortho}\\cxds a{\\*\\cxplvrnop}"), Str("{\\*\\cxplvrortho}{\\*\\cxplvrnop}a\\cxds "),
   Str("{\\*\\cxplvrortho}a\\cxds b"), Str("{\\*\\cxplvrortho}\\cxds a\\cxds b\\cxds "),
   Str("{\\*\\cxplvrortho}\\cxds \\{a"), Str("{\\*\\cxplvrortho}\\cxds \\}a\\cxds "),
   Str("{\\*\\cxplvrortho}\\cxds \\cxdstroke "),
   Str("{\\*\\cxplvrccap}{\\*\\cxplvrortho}a{\\cxfing b}")}
  \cup {Str("\\u") \o n \o t : n \in RtfNumbers, t \in {<<>>, Str(" "), Str(" a")}}
  \cup {Str("\\par\\s") \o n \o t : n \in RtfNumbers, t \in {<<>>, Str(" ")}}
  \cup {Str("{\\*\\cxplvrcase") \o n \o Str("}") : n \in RtfNumbers}
  \cup {Str("{\\*\\cxplvrspc") \o n \o Str("}") : n \in RtfNumbers}
  \cup {Str("{\\*\\cxplvrcmd") \o n \o Str(" a}") : n \in RtfNumbers}

\* the RTF translation bodies given to rtf_to_plover
RtfInputs ==
  PlainTexts \cup RtfFixed \cup RtfAttachForms
    \cup {h \o x \o Str("}") : h \in RtfHeads, x \in Payloads}

----------------------------------------------------------------------------
(* The conversions as a state machine *)

Opposite(d) == IF d = "plover_to_rtf" THEN "rtf_to_plover" ELSE "plover_to_rtf"

\* the entry of a call of plover_to_rtf or rtf_to_plover
Call(d, translation) ==
  /\ direction' = d
  /\ tl' = translation
  /\ remaining' = translation
  /\ items' = <<>>
  /\ depth' = 0
  /\ status' = "parsing"
  /\ output' = <<>>

\* Dictionary::new: an empty dictionary of the given system, on which no
\* call was made yet
new(name) ==
  /\ cre_system = name
  /\ entries = <<>>
  /\ reverse_entries = {}
  /\ longest_key = 0
  /\ first_seen = <<>>
  /\ calls = 0
  /\ file = None
  /\ written = None
  /\ dstatus = "ready"

Init ==
  /\ \/ direction = "plover_to_rtf" /\ tl \in PloverInputs
     \/ direction = "rtf_to_plover" /\ tl \in RtfInputs
  /\ remaining = tl
  /\ items = <<>>
  /\ depth = 0
  /\ status = "parsing"
  /\ output = <<>>
  /\ history = <<>>
  /\ new(<<>>)

\* one call of a recursive parser (rest or objects) on a non-empty input:
\* the first alternative that matches produces a directive and the parser
\* calls itself on the input left over; an abort inside an alternative ends
\* the conversion
ParseStep(r) ==
  IF r.panic
  THEN /\ status' = "panic"
       /\ UNCHANGED <<direction, tl, remaining, items, depth, output, history>>
  ELSE /\ items' = Append(items, r.obj)
       /\ remaining' = r.rest
       /\ depth' = depth + 1
       /\ UNCHANGED <<direction, tl, status, output, history>>

\* parse_translation (Plover): alt((macro_, rest)), macro_ matched
Macro ==
  /\ status = "parsing" /\ direction = "plover_to_rtf" /\ depth = 0
  /\ macro_(tl).ok
  /\ items' = <<macro_(tl).obj>>
  /\ remaining' = macro_(tl).rest
  /\ status' = "parsed"
  /\ UNCHANGED <<direction, tl, depth, output, history>>
  /\ UNCHANGED dvars

\* rest on a non-empty input
Rest ==
  /\ status = "parsing" /\ direction = "plover_to_rtf"
  /\ depth > 0 \/ ~macro_(tl).ok
  /\ remaining # <<>> /\ depth < MaxDepth
  /\ ParseStep(rest_first(remaining))
  /\ UNCHANGED dvars

\* rest on the empty input: the recursion returns
RestEnd ==
  /\ status = "parsing" /\ direction = "plover_to_rtf"
  /\ depth > 0 \/ ~macro_(tl).ok
  /\ remaining = <<>>
  /\ status' = "parsed"
  /\ UNCHANGED <<direction, tl, remaining, items, depth, output, history>>
  /\ UNCHANGED dvars

\* objects on a non-empty input
Objects ==
  /\ status = "parsing" /\ direction = "rtf_to_plover"
  /\ remaining # <<>> /\ depth < MaxDepth
  /\ ParseStep(objects_first(remaining))
  /\ UNCHANGED dvars

\* objects on the empty input
ObjectsEnd ==
  /\ status = "parsing" /\ direction = "rtf_to_plover"
  /\ remaining = <<>>
  /\ status' = "parsed"
  /\ UNCHANGED <<direction, tl, remaining, items, depth, output, history>>
  /\ UNCHANGED dvars

\* the recursion exhausts the stack and the process aborts
StackOverflow ==
  /\ status = "parsing" /\ remaining # <<>> /\ depth = MaxDepth
  /\ status' = "overflow"
  /\ UNCHANGED <<direction, tl, remaining, items, depth, output, history>>
  /\ UNCHANGED dvars

Conversion(out) == [direction |-> direction, tl |-> tl, items |-> items, output |-> out]

format_plover_to_rtf ==
  /\ status = "parsed" /\ direction = "plover_to_rtf"
  /\ output' = RtfOfItems(items)
  /\ status' = "done"
  /\ history' = Append(history, Conversion(output'))
  /\ UNCHANGED <<direction, tl, remaining, items, depth>>
  /\ UNCHANGED dvars

format_rtf_to_plover ==
  /\ status = "parsed" /\ direction = "rtf_to_plover"
  /\ output' = PloverOfItems(items)
  /\ status' = "done"
  /\ history' = Append(history, Conversion(output'))
  /\ UNCHANGED <<direction, tl, remaining, items, depth>>
  /\ UNCHANGED dvars

\* the result of one conversion is given to the opposite one
ConvertBack ==
  /\ status = "done" /\ Len(history) < MaxChain
  /\ Call(Opposite(direction), output)
  /\ UNCHANGED history
  /\ UNCHANGED dvars

Next ==
  \/ Macro
  \/ Rest
  \/ RestEnd
  \/ Objects
  \/ ObjectsEnd
  \/ StackOverflow
  \/ format_plover_to_rtf
  \/ format_rtf_to_plover
  \/ ConvertBack

Spec == Init /\ [][Next]_vars


-----------------------------------------------------------------------------
(* The dictionary container: src/src/dict.rs *)

\* Entry: metadata is Some(EntryMetadata) exactly when a comment was given
Entry(steno, translation, comment) ==
  [steno |-> steno, translation |-> translation,
   metadata |-> IF comment = None THEN None ELSE Some([comment |-> comment])]

\* Entry::comment
comment(entry) == IF entry.metadata = None THEN None ELSE entry.metadata[1].comment

\* a Dictionary value; entries is the LinkedHashMap as the sequence of its
\* values in iteration order, reverse_entries the HashMap as the set of its
\* (key, value) pairs
Dictionary(name, es, rev, longest) ==
  [cre_system |-> name, entries |-> es, reverse_entries |-> rev, longest_key |-> longest]

\* Dictionary::contains_key
contains_key(d, steno) == \E i \in 1..Len(d.entries) : d.entries[i].steno = steno

\* Dictionary::entry, for a key that is present
entry(d, steno) == d.entries[CHOOSE i \in 1..Len(d.entries) : d.entries[i].steno = steno]

\* Dictionary::lookup
lookup(d, steno) == IF contains_key(d, steno) THEN Some(entry(d, steno).translation) ELSE None

\* Dictionary::rev_lookup: the set under the key, None when the key is absent
rev_lookup(d, translation) ==
  IF \E r \in d.reverse_entries : r.translation = translation
  THEN Some((CHOOSE r \in d.reverse_entries : r.translation = translation).stenos)
  ELSE None

\* HashSet::remove on the set under a key of reverse_entries, if the key exists
RevRemove(rev, translation, steno) ==
  {IF r.translation = translation THEN [r EXCEPT !.stenos = @ \ {steno}] ELSE r : r \in rev}

\* the insertion into reverse_entries that ends add_entry
RevInsert(rev, translation, steno) ==
  IF \E r \in rev : r.translation = translation
  THEN {IF r.translation = translation THEN [r EXCEPT !.stenos = @ \cup {steno}] ELSE r : r \in rev}
  ELSE rev \cup {[translation |-> translation, stenos |-> {steno}]}

\* LinkedHashMap::remove
MapRemove(es, steno) == SelectSeq(es, LAMBDA e : e.steno # steno)

\* LinkedHashMap::insert: a new key is appended; for a key that is present
\* the value is replaced and the node is detached and attached again at the
\* end of the list
MapInsert(es, e) == Append(MapRemove(es, e.steno), e)

\* steno.chars().filter(|c| *c == '/').count()
key_length(steno) == Cardinality({i \in 1..Len(steno) : steno[i] = Chr("/")})

\* add_entry without the removal of the steno from the set of the translation
\* it had
add_entry_keeps_old(d, steno, translation, comm) ==
  Dictionary(d.cre_system,
             MapInsert(d.entries, Entry(steno, translation, comm)),
             RevInsert(d.reverse_entries, translation, steno),
             IF key_length(steno) > d.longest_key THEN key_length(steno) ELSE d.longest_key)

\* Dictionary::add_entry
add_entry(d, steno, translation, comm) ==
  LET rev == IF contains_key(d, steno)
             THEN RevRemove(d.reverse_entries, entry(d, steno).translation, steno)
             ELSE d.reverse_entries
  IN Dictionary(d.cre_system,
                MapInsert(d.entries, Entry(steno, translation, comm)),
                RevInsert(rev, translation, steno),
                IF key_length(steno) > d.longest_key THEN key_length(steno) ELSE d.longest_key)

\* Dictionary::remove_entry
remove_entry(d, steno) ==
  IF contains_key(d, steno)
  THEN LET t == entry(d, steno).translation
       IN Dictionary(d.cre_system,
                     MapRemove(d.entries, steno),
                     {r \in RevRemove(d.reverse_entries, t, steno) :
                        ~(r.translation = t /\ r.stenos = {})},
                     d.longest_key)
  ELSE d

\* Dictionary::clear
clear(d) == Dictionary(d.cre_system, <<>>, {}, 0)

-----------------------------------------------------------------------------
(* The conversions as functions: what a call returns, or how it ends.     *)
(* An operator named ...Of takes the result of the parser before it, as   *)
(* the code binds it with let.                                            *)

Returned(out) == [st |-> "ok", out |-> out]
Aborted(how) == [st |-> how, out |-> <<>>]

\* the directive parsed first, in front of those of the recursive call
Cons(obj, t) == IF t.st = "ok" THEN Returned(<<obj>> \o t.out) ELSE t

RECURSIVE rest(_, _)
RECURSIVE objects(_, _)

\* tuple((alt(parsers), opt(rest))) of rest
RestOf(r, d) == IF r.panic THEN Aborted("panic") ELSE Cons(r.obj, rest(r.rest, d - 1))

\* rest (translation.rs), with d the calls the stack still has room for
rest(input, d) ==
  IF input = <<>> THEN Returned(<<>>)
  ELSE IF d = 0 THEN Aborted("overflow")
  ELSE RestOf(rest_first(input), d)

\* alt((macro_, rest)) once macro_ was tried
ParseOf(m, input) == IF m.ok THEN Returned(<<m.obj>>) ELSE rest(input, MaxDepth)

\* parse_translation (translation.rs)
parse_plover(input) == ParseOf(macro_(input), input)

\* the map and join of format_plover_to_rtf over the parsed directives
RtfOf(p) == IF p.st = "ok" THEN Returned(RtfOfItems(p.out)) ELSE p

\* format_plover_to_rtf as a function
plover_to_rtf(translation) == RtfOf(parse_plover(translation))

\* tuple((alt(parsers), opt(objects))) of objects
ObjectsOf(r, d) == IF r.panic THEN Aborted("panic") ELSE Cons(r.obj, objects(r.rest, d - 1))

\* objects (translation_parse.rs)
objects(input, d) ==
  IF input = <<>> THEN Returned(<<>>)
  ELSE IF d = 0 THEN Aborted("overflow")
  ELSE ObjectsOf(objects_first(input), d)

\* the map, join and fixup of format_rtf_to_plover over the parsed directives
PloverOf(p) == IF p.st = "ok" THEN Returned(PloverOfItems(p.out)) ELSE p

\* format_rtf_to_plover as a function
rtf_to_plover(translation) == PloverOf(objects(translation, MaxDepth))

-----------------------------------------------------------------------------
(* The contents of the dictionaries and of the files *)

Systems == {<<>>, Str("Test")}

Stenos == {Str("T"), Str("S"), Str("T/G")}

\* the last one is a translation on which the Plover parser does not return
DictTranslations == {Str(" a"), Str("{^ing}"), Str("{")}

Comments == {None, Some(Str("c"))}

FileStenos == {Str("T"), Str("T/G")}

\* entry bodies: text, a command group, an escaped character, and a control
\* word the translation parser has no rule for
Bodies == {Str("a"), Str("{\\*\\cxplvrcmd lookup}"), Str("\\u12615 "), Str("\\foo")}

-----------------------------------------------------------------------------
(* The dictionary writer: src/src/dict.rs *)

FILE_HEADER == Str("{\\rtf1\\ansi{\\*\\cxrev100}\\cxdict")
FILE_HEADER_END == Str("{\\stylesheet{\\s0 Normal;\\s1 Contin;}}") \o <<Chr("\n")>>
FILE_FOOTER == Str("}") \o <<Chr("\n")>>

\* the write! of Entry::write, once the translation is formatted
EntryOf(e, t) ==
  IF t.st # "ok" THEN t
  ELSE Returned(Str("{\\*\\cxs ") \o e.steno \o Str("}") \o t.out
                \o (IF e.metadata # None /\ e.metadata[1].comment # None
                    THEN Str("{\\*\\cxcomment ") \o e.metadata[1].comment[1] \o Str("}")
                    ELSE <<>>)
                \o <<Chr("\n")>>)

\* Entry::write
entry_write(e) == EntryOf(e, plover_to_rtf(e.translation))

\* the text written when every entry is, else the abort of the first entry
\* whose translation cannot be formatted
WriteOf(d, lines) ==
  IF \E i \in 1..Len(lines) : lines[i].st # "ok"
  THEN lines[CHOOSE i \in 1..Len(lines) :
               lines[i].st # "ok" /\ \A j \in 1..(i - 1) : lines[j].st = "ok"]
  ELSE Returned(FILE_HEADER \o Str("{\\*\\cxsystem ") \o d.cre_system \o Str("}")
                \o FILE_HEADER_END
                \o join([i \in 1..Len(lines) |-> lines[i].out])
                \o FILE_FOOTER)

\* Dictionary::write
write(d) == WriteOf(d, [i \in 1..Len(d.entries) |-> entry_write(d.entries[i])])

-----------------------------------------------------------------------------
(* The dictionary file parser: src/src/rtf.rs.  A parser returns the text  *)
(* it stands for in the field obj.                                         *)

\* digit1 then parse::<u32>().unwrap()
unsigned(input) == positive_number(input)

\* recognize(tuple((tag("-"), digit1))) then parse::<i32>().unwrap()
integer(input) ==
  IF StartsWith(input, Str("-")) THEN number(input)
  ELSE [ok |-> FALSE, panic |-> FALSE, val |-> 0, rest |-> input]

\* from_u32(code).unwrap() and opt(tag(" ")) of unicode
UnicodeOf(code) ==
  IF code.panic THEN Panic
  ELSE IF ~code.ok THEN Fail
  ELSE IF from_u32(code.val) = None THEN Panic
  ELSE Ok(SkipSpace(code.rest), from_u32(code.val))

\* unicode: the character of the code, in place of the escape
file_unicode(input) ==
  IF ~StartsWith(input, Str("\\u")) THEN Fail ELSE UnicodeOf(unsigned(Drop(input, 2)))

\* recognize: the part of the input a parser went over
Recognized(input, left) == Ok(left, Take(input, Len(input) - Len(left)))

\* opt(integer) and opt(tag(" ")) of control_word, after the letters
ControlWordOf(input, i1, num) ==
  IF num.panic THEN Panic
  ELSE Recognized(input, SkipSpace(IF num.ok THEN num.rest ELSE i1))

ControlWordAfter(input, i1) == ControlWordOf(input, i1, integer(i1))

control_word(input) ==
  IF ~StartsWith(input, Str("\\")) \/ SpanIn(Drop(input, 1), Alpha) = 0 THEN Fail
  ELSE ControlWordAfter(input, Drop(input, 1 + SpanIn(Drop(input, 1), Alpha)))

control_symbol(input) ==
  IF Len(input) >= 2 /\ input[1] = Chr("\\")
       /\ input[2] \in {Chr("\\"), Chr("{"), Chr("}"), Chr("*"), Chr("_"), Chr("~")}
  THEN Ok(Drop(input, 2), Take(input, 2))
  ELSE Fail

TextOf(input, n) == IF n = 0 THEN Fail ELSE Ok(Drop(input, n), Take(input, n))

text(input) == TextOf(input, SpanNotIn(input, {Chr("\\"), Chr("{"), Chr("}")}))

\* alt((unicode, control_word, control_symbol, text))
Flat(input) == Alt(<<file_unicode(input), control_word(input), control_symbol(input), text(input)>>)

RECURSIVE group(_)
RECURSIVE Many(_, _)
RECURSIVE many_till(_, _)
RECURSIVE SkipTill(_, _)
RECURSIVE many0_steno_entry(_)
RECURSIVE AddAll(_, _)

\* alt((group, unicode, control_word, control_symbol, text)), or the same
\* without group: in front of a brace only group can match
Item(input, nested) ==
  IF StartsWith(input, Str("{"))
  THEN IF nested THEN group(input) ELSE Fail
  ELSE Flat(input)

\* the text of an item in front of the texts of the items after it
Prepend(s, t) == IF t.panic THEN Panic ELSE Ok(t.rest, s \o t.obj)

ManyOf(r, input, nested) ==
  IF r.panic THEN Panic
  ELSE IF ~r.ok THEN Ok(input, <<>>)
  ELSE Prepend(r.obj, Many(r.rest, nested))

\* many0 of the items: their texts joined; many1 is many0 that consumed input
Many(input, nested) ==
  IF input = <<>> THEN Ok(input, <<>>) ELSE ManyOf(Item(input, nested), input, nested)

GroupOf(grp, i1) ==
  IF grp.panic THEN Panic
  ELSE IF grp.rest = i1 \/ ~StartsWith(grp.rest, Str("}")) THEN Fail
  ELSE Ok(Drop(grp.rest, 1), Str("{") \o grp.obj \o Str("}"))

group(input) ==
  IF ~StartsWith(input, Str("{")) THEN Fail
  ELSE GroupOf(Many(Drop(input, 1), TRUE), Drop(input, 1))

StenoGroupOf(steno, input) ==
  IF steno.panic THEN Panic
  ELSE IF steno.rest = input \/ ~StartsWith(steno.rest, Str("}")) THEN Fail
  ELSE Ok(Drop(steno.rest, 1), steno.obj)

steno_group(input) == StenoGroupOf(Many(input, FALSE), input)

\* TranslationItem
Comment(s) == [translation |-> <<>>, comment |-> s]
NotComment(s) == [translation |-> s, comment |-> <<>>]

CommentOf(c) ==
  IF c.panic THEN Panic
  ELSE IF ~StartsWith(c.rest, Str("}")) THEN Fail
  ELSE Ok(Drop(c.rest, 1), Comment(c.obj))

cxcomment(input) ==
  IF ~StartsWith(input, Str("{\\*\\cxcomment ")) THEN Fail
  ELSE CommentOf(Many(Drop(input, Len(Str("{\\*\\cxcomment "))), TRUE))

NotCommentOf(r) == IF r.ok THEN Ok(r.rest, NotComment(r.obj)) ELSE r

non_comment(input) == NotCommentOf(Item(input, TRUE))

OrNonComment(c, input) == IF c.ok \/ c.panic THEN c ELSE non_comment(input)

\* alt((cxcomment, non_comment))
TranslationItem(input) == OrNonComment(cxcomment(input), input)

\* an item in front of the items after it: the texts of the NotComment
\* items joined, and those of the Comment items joined
Both(o, t) ==
  IF ~t.ok THEN t
  ELSE Ok(t.rest, [translation |-> o.translation \o t.obj.translation,
                   comment |-> o.comment \o t.obj.comment])

ManyTillOf(r, term) == IF ~r.ok THEN r ELSE Both(r.obj, many_till(r.rest, term))

\* many_till(alt((cxcomment, non_comment)), tag(term))
many_till(input, term) ==
  IF StartsWith(input, term) THEN Ok(Drop(input, Len(term)), Comment(<<>>))
  ELSE ManyTillOf(TranslationItem(input), term)

\* "" => None, s => Some(s)
OrNone(s) == IF s = <<>> THEN None ELSE Some(s)

EntryOfContents(steno, contents) ==
  IF ~contents.ok THEN contents
  ELSE Ok(contents.rest,
          [steno |-> steno,
           translation |-> trim(contents.obj.translation),
           comment |-> OrNone(trim(contents.obj.comment))])

EntryAfter(s, term) ==
  IF ~s.ok THEN s ELSE EntryOfContents(s.obj, many_till(s.rest, term))

\* the body shared by steno_entry and last_steno_entry
EntryUntil(input, term) == EntryAfter(steno_group(input), term)

steno_entry(input) == EntryUntil(input, Str("{\\*\\cxs "))

last_steno_entry(input) == EntryUntil(input, Str("}"))

SystemOf(system) ==
  IF system.panic THEN Panic
  ELSE IF ~StartsWith(system.rest, Str("}")) THEN Fail
  ELSE Ok(Drop(system.rest, 1), trim(system.obj))

cxsystem(input) ==
  IF ~StartsWith(input, Str("{\\*\\cxsystem")) THEN Fail
  ELSE SystemOf(Many(Drop(input, Len(Str("{\\*\\cxsystem"))), TRUE))

SkipTillOf(r, term) == IF ~r.ok THEN r ELSE SkipTill(r.rest, term)

\* recognize(many_till(alt((group, unicode, control_word, control_symbol, text)), tag(term)))
SkipTill(input, term) ==
  IF StartsWith(input, term) THEN Ok(Drop(input, Len(term)), <<>>)
  ELSE SkipTillOf(Item(input, TRUE), term)

no_entries(input) == SkipTill(input, Str("}"))

PrependEntry(e, t) == IF t.panic THEN Panic ELSE Ok(t.rest, <<e>> \o t.obj)

Many0Of(e, input) ==
  IF e.panic THEN Panic
  ELSE IF ~e.ok THEN Ok(input, <<>>)
  ELSE PrependEntry(e.obj, many0_steno_entry(e.rest))

\* many0(steno_entry)
many0_steno_entry(input) == Many0Of(steno_entry(input), input)

SomeLast(es, last_entry) ==
  IF ~last_entry.ok THEN last_entry ELSE Ok(last_entry.rest, Append(es, last_entry.obj))

SomeWith(es) == IF es.panic THEN Panic ELSE SomeLast(es.obj, last_steno_entry(es.rest))

SomeAfter(skipped) == IF ~skipped.ok THEN skipped ELSE SomeWith(many0_steno_entry(skipped.rest))

some_entries(input) == SomeAfter(SkipTill(input, Str("{\\*\\cxs ")))

\* multispace0: space, tab, carriage return and line feed
multispace0(input) == Drop(input, SpanIn(input, {32, 9, 13, 10}))

\* tuple of multispace0 and tags: the input after them, None when a tag is
\* not there
RECURSIVE Tags(_, _)
Tags(input, tags) ==
  IF tags = <<>> THEN Some(multispace0(input))
  ELSE IF StartsWith(multispace0(input), Head(tags))
       THEN Tags(Drop(multispace0(input), Len(Head(tags))), Tail(tags))
       ELSE None

SheetOf(i1, i2, body) ==
  IF body.panic THEN Panic
  ELSE IF body.rest = i2 \/ ~StartsWith(body.rest, Str("}")) THEN Ok(i1, <<>>)
  ELSE Ok(Drop(body.rest, 1), <<>>)

SheetAt(i1, i2) ==
  IF ~StartsWith(i1, Str("{\\stylesheet")) THEN Ok(i1, <<>>)
  ELSE SheetOf(i1, i2, Many(i2, TRUE))

\* opt(tuple((tag("{\\stylesheet"), many1(..), tag("}")))) after multispace0
Stylesheet(input) ==
  SheetAt(multispace0(input), Drop(multispace0(input), Len(Str("{\\stylesheet"))))

AddOf(d, es, t) ==
  IF t.st # "ok" THEN t
  ELSE AddAll(add_entry(d, Head(es).steno, t.out, Head(es).comment), Tail(es))

\* the loop of parse_file: add_entry of the converted translation of each
\* entry, until one conversion does not return
AddAll(d, es) ==
  IF es = <<>> THEN Returned(d)
  ELSE AddOf(d, es, rtf_to_plover(trim(Head(es).translation)))

NoEntriesOf(name, none) ==
  IF none.panic THEN Aborted("panic")
  ELSE IF none.ok THEN Returned(Dictionary(name, <<>>, {}, 0))
  ELSE Aborted("error")

\* alt((some_entries, no_entries)) and the loop over the entries
EntriesOf(name, input, some) ==
  IF some.panic THEN Aborted("panic")
  ELSE IF some.ok THEN AddAll(Dictionary(name, <<>>, {}, 0), some.obj)
  ELSE NoEntriesOf(name, no_entries(input))

AfterSheet(name, sheet) ==
  IF sheet.panic THEN Aborted("panic")
  ELSE EntriesOf(name, sheet.rest, some_entries(sheet.rest))

AfterSystem(system) ==
  IF system.panic THEN Aborted("panic")
  ELSE IF ~system.ok THEN Aborted("error")
  ELSE AfterSheet(system.obj, Stylesheet(system.rest))

AfterHeader(header) ==
  IF header = None THEN Aborted("error") ELSE AfterSystem(cxsystem(header[1]))

\* parse_file: the dictionary, "error" for an Err of the parser, or the abort
parse_file(input) ==
  AfterHeader(Tags(input, <<Str("{"), Str("\\rtf1"), Str("\\ansi"),
                            Str("{\\*\\cxrev100}"), Str("\\cxdict")>>))

\* parse_rtf: None for an Err of parse_file
parse_rtf(input) == parse_file(trim(input))

-----------------------------------------------------------------------------
(* The dictionary as a state machine *)

\* the number of calls made on one dictionary
MaxCalls == 3

FileEntries == [steno : FileStenos, body : Bodies, comment : Comments]

RECURSIVE ListsUpTo(_, _)
ListsUpTo(S, n) ==
  IF n = 0 THEN {<<>>}
  ELSE ListsUpTo(S, n - 1) \cup {Append(l, x) : l \in {k \in ListsUpTo(S, n - 1) : Len(k) = n - 1}, x \in S}

\* no two entries of a file define the same steno
DistinctStenos(es) == \A i, j \in 1..Len(es) : es[i].steno = es[j].steno => i = j

\* a file: the system it names and its entries
Files ==
  [name : Systems,
   entries : {l \in ListsUpTo(FileEntries, Cardinality(FileStenos)) : DistinctStenos(l)}]

\* the text of a file, laid out as Dictionary::write lays it out; the file
\* of an unnamed system has no stylesheet group
FileText(f) ==
  FILE_HEADER \o Str("{\\*\\cxsystem ") \o f.name \o Str("}")
    \o (IF f.name = <<>> THEN <<Chr("\n")>> ELSE FILE_HEADER_END)
    \o join([i \in 1..Len(f.entries) |->
               Str("{\\*\\cxs ") \o f.entries[i].steno \o Str("}") \o f.entries[i].body
                 \o (IF f.entries[i].comment = None THEN <<>>
                     ELSE Str("{\\*\\cxcomment ") \o f.entries[i].comment[1] \o Str("}"))
                 \o <<Chr("\n")>>])
    \o FILE_FOOTER

\* the dictionary the calls act on
Self == Dictionary(cre_system, entries, reverse_entries, longest_key)

Store(d) ==
  /\ cre_system' = d.cre_system
  /\ entries' = d.entries
  /\ reverse_entries' = d.reverse_entries
  /\ longest_key' = d.longest_key

\* a dictionary is built by calls, or read from a file and then written
Mutable == dstatus = "ready" /\ file = None /\ calls < MaxCalls

DictInit ==
  /\ direction = "none"
  /\ tl = <<>>
  /\ remaining = <<>>
  /\ items = <<>>
  /\ depth = 0
  /\ status = "idle"
  /\ output = <<>>
  /\ history = <<>>
  /\ \E name \in Systems : new(name)

AddEntry ==
  /\ Mutable
  /\ \E steno \in Stenos, translation \in DictTranslations, comm \in Comments :
       /\ Store(add_entry(Self, steno, translation, comm))
       /\ first_seen' = IF contains_key(Self, steno) THEN first_seen
                        ELSE Append(first_seen, steno)
  /\ calls' = calls + 1
  /\ UNCHANGED <<file, written, dstatus>>
  /\ UNCHANGED tvars

RemoveEntry ==
  /\ Mutable
  /\ \E steno \in Stenos :
       /\ Store(remove_entry(Self, steno))
       /\ first_seen' = SelectSeq(first_seen, LAMBDA s : s # steno)
  /\ calls' = calls + 1
  /\ UNCHANGED <<file, written, dstatus>>
  /\ UNCHANGED tvars

Clear ==
  /\ Mutable
  /\ Store(clear(Self))
  /\ first_seen' = <<>>
  /\ calls' = calls + 1
  /\ UNCHANGED <<file, written, dstatus>>
  /\ UNCHANGED tvars

\* Dictionary::write, called once
Write ==
  /\ dstatus = "ready"
  /\ \E w \in {write(Self)} :
       IF w.st = "ok"
       THEN written' = Some(w.out) /\ dstatus' = "written"
       ELSE written' = None /\ dstatus' = "write " \o w.st
  /\ UNCHANGED <<cre_system, entries, reverse_entries, longest_key, first_seen, calls, file>>
  /\ UNCHANGED tvars

\* parse_rtf on the text of a file: the dictionary it returns takes the place
\* of the new one
ParseRtf ==
  /\ dstatus = "ready" /\ file = None /\ calls = 0
  /\ \E f \in Files :
       /\ file' = Some(f)
       /\ \E p \in {parse_rtf(FileText(f))} :
            IF p.st = "ok"
            THEN /\ Store(p.out)
                 /\ first_seen' = [i \in 1..Len(p.out.entries) |-> p.out.entries[i].steno]
                 /\ dstatus' = "ready"
            ELSE /\ UNCHANGED <<cre_system, entries, reverse_entries, longest_key, first_seen>>
                 /\ dstatus' = "parse " \o p.st
  /\ UNCHANGED <<calls, written>>
  /\ UNCHANGED tvars

DictNext ==
  \/ AddEntry
  \/ RemoveEntry
  \/ Clear
  \/ Write
  \/ ParseRtf

DictSpec == DictInit /\ [][DictNext]_vars

----------------------------------------------------------------------------
(* Properties *)

PloverToRtf == direction = "plover_to_rtf"
RtfToPlover == direction = "rtf_to_plover"

\* every parser call made so far has consumed at least one character and
\* the recursion has not exhausted the stack
Consumes == status # "overflow" /\ Len(remaining) + depth <= Len(tl)

\* C1: plover_to_rtf terminates on every input: each call of the Plover
\* parser on a non-empty remaining input consumes at least one character
\* (also at a '{' without '}' and at a backslash that starts no escape), so
\* the recursion never runs away.
C1_PloverParserConsumes ==
  (PloverToRtf /\ status \in {"parsing", "overflow"}) => Consumes

\* C2: the Plover parser never raises: plover_to_rtf never aborts, also on
\* a meta whose argument is missing or empty and on {:carry_capitalize:^}.
C2_PloverParserNeverRaises == PloverToRtf => status # "panic"

\* C3: rtf_to_plover terminates on every input: each call of the RTF parser
\* on a non-empty remaining input consumes at least one character; a stray
\* control word or an unrecognised '{' is dropped and does not stall.
C3_RtfParserConsumes ==
  (RtfToPlover /\ status \in {"parsing", "overflow"}) => Consumes

\* C4: the RTF translation parser never fails: rtf_to_plover never aborts,
\* also on {\cxp}, on \uN with N no Unicode scalar value or above 32 bits,
\* and on \par\sN or {\*\cxplvrcaseN} with N outside 32 signed bits.
C4_RtfParserNeverFails == RtfToPlover => status # "panic"

\* none of '{', '}', '\', '-' and only code points up to 255
PureText(s) ==
  \A i \in 1..Len(s) : s[i] \notin {Chr("{"), Chr("}"), Chr("\\"), Chr("-")} /\ s[i] <= 255

\* C5 as stated: both conversions are the identity on every pure text.
C5_Original == (status = "done" /\ PureText(tl)) => output = tl

\* C5: pure text passthrough: rtf_to_plover is the identity on every text
\* with none of '{', '}', '\', '-' and only code points up to 255, and
\* plover_to_rtf is the identity on every such text that contains no
\* newline and no tab and does not begin with '='.
C5_PureTextPassthrough ==
  (status = "done" /\ PureText(tl)) =>
    \/ output = tl
    \/ /\ PloverToRtf
       /\ \/ StartsWith(tl, Str("="))
          \/ \E i \in 1..Len(tl) : tl[i] \in {Chr("\n"), Chr("\t")}

C5_Witness ==
  /\ status = "done" /\ PloverToRtf /\ PureText(tl)
  /\ Len(tl) = 2 /\ tl[1] = 233 /\ tl[2] = Chr("=")
  /\ output = tl

\* the escape \uU followed by one space
UnicodeEscape(u) == Str("\\u") \o Decimal(u) \o Str(" ")

\* C6 as stated: plover_to_rtf of a single character above 127 is its
\* escape \uU  and rtf_to_plover of the escape is the character.
C6_Original ==
  /\ (status = "done" /\ PloverToRtf /\ Len(tl) = 1 /\ tl[1] > 127) =>
       output = UnicodeEscape(tl[1])
  /\ (status = "done" /\ RtfToPlover) =>
       \A u \in TextChars : (u > 127 /\ tl = UnicodeEscape(u)) => output = <<u>>

\* C6: Unicode fidelity: plover_to_rtf of a single character U above 255
\* is \uU followed by one space (U in decimal) and leaves a single character
\* from 128 to 255 unchanged, and rtf_to_plover of the escape \uU  of a
\* character U above 127 is that character.
C6_UnicodeFidelity ==
  /\ (status = "done" /\ PloverToRtf /\ Len(tl) = 1 /\ tl[1] > 255) =>
       output = UnicodeEscape(tl[1])
  /\ (status = "done" /\ PloverToRtf /\ Len(tl) = 1 /\ tl[1] \in 128..255) =>
       output = tl
  /\ (status = "done" /\ RtfToPlover) =>
       \A u \in TextChars : (u > 127 /\ tl = UnicodeEscape(u)) => output = <<u>>

C6_Witness ==
  /\ status = "done" /\ RtfToPlover /\ Len(history) = 2
  /\ history[1].tl = <<20320>>
  /\ tl = UnicodeEscape(20320)
  /\ output = <<20320>>


\* the conversion whose result the current conversion was given, if any
HasPrevious == IF status = "done" THEN Len(history) >= 2 ELSE Len(history) >= 1
Previous == IF status = "done" THEN history[Len(history) - 1] ELSE history[Len(history)]

\* the current conversion has ended, normally or not
Ended == status \in {"done", "panic", "overflow"}

\* C7: semantic round-trip: when a translation parses to a single directive
\* d, the parser of the other format applied to the rendering of [d] ends
\* normally and yields [d] again, in both directions.
C7_SemanticRoundTrip ==
  (HasPrevious /\ Len(Previous.items) = 1 /\ status # "parsing") =>
    status \in {"parsed", "done"} /\ items = Previous.items

Ortho == Str("{\\*\\cxplvrortho}")
Cxds == Str("\\cxds ")
CCap == Str("{\\*\\cxplvrccap}")

\* non-empty, none of '{', '}', '^', '\', not a single space and not the
\* start of another directive form
PlainAttach(x) ==
  /\ x # <<>> /\ x # Str(" ")
  /\ \A i \in 1..Len(x) : x[i] \notin {Chr("{"), Chr("}"), Chr("^"), Chr("\\")}
  /\ x[1] \notin {Chr(":"), Chr("&"), Chr("#")}
  /\ ~StartsWith(x, Str("*(")) /\ ~StartsWith(x, Str("~|"))
  /\ ~StartsWithNoCase(x, Str("plover:")) /\ ~StartsWithNoCase(x, Str("mode:"))

\* s is open, a text and close; Inner is that text
Wrapped(s, open, close) ==
  Len(s) >= Len(open) + Len(close) /\ StartsWith(s, open) /\ EndsWith(s, close)
Inner(s, open, close) == SubSeq(s, Len(open) + 1, Len(s) - Len(close))

\* for every plain X, plover_to_rtf maps popen X pclose to ropen X rclose
\* and ends normally
RendersAs(popen, pclose, ropen, rclose) ==
  (Ended /\ PloverToRtf /\ Wrapped(tl, popen, pclose)
     /\ PlainAttach(Inner(tl, popen, pclose))) =>
    status = "done" /\ output = ropen \o Inner(tl, popen, pclose) \o rclose

\* for every plain X, rtf_to_plover maps ropen X rclose to popen X pclose
\* and ends normally
ReadsAs(ropen, rclose, popen, pclose) ==
  (Ended /\ RtfToPlover /\ Wrapped(tl, ropen, rclose)
     /\ PlainAttach(Inner(tl, ropen, rclose))) =>
    status = "done" /\ output = popen \o Inner(tl, ropen, rclose) \o pclose

\* for every plain X, converting popen X pclose to RTF and back returns it
ComesBack(popen, pclose) ==
  (Ended /\ RtfToPlover /\ HasPrevious /\ Wrapped(Previous.tl, popen, pclose)
     /\ PlainAttach(Inner(Previous.tl, popen, pclose))) =>
    status = "done" /\ output = Previous.tl

Caret == Str("^")
OpenBrace == Str("{")
CloseBrace == Str("}")
OpenCaret == Str("{^")
CaretClose == Str("^}")
CarryOpen == Str("{~|")
CarryOpenCaret == Str("{~|^")

C9_CarryCapAttach ==
  /\ RendersAs(CarryOpenCaret, CaretClose, CCap \o Ortho \o Cxds, Cxds)
  /\ RendersAs(CarryOpenCaret, CloseBrace, CCap \o Ortho \o Cxds, <<>>)
  /\ RendersAs(CarryOpen, CaretClose, CCap \o Ortho, Cxds)
  /\ ReadsAs(CCap \o Ortho \o Cxds, Cxds, CarryOpenCaret, CaretClose)
  /\ ReadsAs(CCap \o Ortho \o Cxds, <<>>, CarryOpenCaret, CloseBrace)
  /\ ReadsAs(CCap \o Ortho, Cxds, CarryOpen, CaretClose)
  /\ ComesBack(CarryOpenCaret, CaretClose)
  /\ ComesBack(CarryOpenCaret, CloseBrace)
  /\ ComesBack(CarryOpen, CaretClose)

CurrencyOpen == Str("{*(")
CurrencyClose == Str(")}")

Has(x, c) == \E i \in 1..Len(x) : x[i] = Chr(c)

\* the current conversion was given the rendering of a Plover translation
\* of the form {*(XcY)}; CurrencyBody is XcY
FromCurrency ==
  /\ HasPrevious /\ Previous.direction = "plover_to_rtf"
  /\ Wrapped(Previous.tl, CurrencyOpen, CurrencyClose)
  /\ Has(Inner(Previous.tl, CurrencyOpen, CurrencyClose), "c")
CurrencyBody == Inner(Previous.tl, CurrencyOpen, CurrencyClose)

\* C10 as stated: for every prefix X and suffix Y, converting {*(XcY)} to
\* RTF and back returns it.
C10_Original ==
  (Ended /\ RtfToPlover /\ FromCurrency) => status = "done" /\ output = Previous.tl

\* C10: currency symmetry: for every prefix X without 'c' and '}' and every
\* suffix Y without ')' and '}', converting {*(XcY)} to RTF and back
\* returns it; an empty side is carried as None and rendered as empty.
C10_CurrencySymmetry ==
  FromCurrency =>
    LET k == Find(CurrencyBody, Str("c"))
        x == Take(CurrencyBody, k)
        y == Drop(CurrencyBody, k + 1)
    IN (~Has(x, "}") /\ ~Has(y, ")") /\ ~Has(y, "}")) =>
         /\ Previous.items = <<Currency(NonEmpty(x), NonEmpty(y))>>
         /\ (Ended /\ RtfToPlover) => status = "done" /\ output = Previous.tl

C10_Witness ==
  /\ status = "done" /\ RtfToPlover /\ Len(history) = 2
  /\ history[1].tl = Str("{*(c $)}")
  /\ history[1].items = <<Currency(None, Some(Str(" $")))>>
  /\ tl = Str("{\\*\\cxplvrcurr c $}")
  /\ output = Str("{*(c $)}")

\* the current conversion is plover_to_rtf of one braced construct {X}, X
\* without '}', and its parse has ended normally
BracedParsed ==
  /\ PloverToRtf /\ status \in {"parsed", "done"}
  /\ Wrapped(tl, OpenBrace, CloseBrace)
  /\ ~Has(Inner(tl, OpenBrace, CloseBrace), "}")

\* C11: fallback braced: whenever the Plover parser turns a braced
\* construct {X} into literal text, as it does for every {X} that is none
\* of the recognised forms and for {mode:M} with an unknown M, the text is
\* RawString(X), the raw text between the braces, so that nothing is dropped.
C11_FallbackBraced ==
  (BracedParsed /\ \E i \in 1..Len(items) : items[i].t = "RawString") =>
    items = <<RawString(Inner(tl, OpenBrace, CloseBrace))>>

\* the rendering of one character of literal text as the escaping table
\* states it
Escaped(c) ==
  IF c = Chr("{") THEN Str("\\{")
  ELSE IF c = Chr("}") THEN Str("\\}")
  ELSE IF c = Chr("\\") THEN Str("\\\\")
  ELSE IF c = Chr("-") THEN Str("\\_")
  ELSE IF c = Chr("\n") THEN Str("\\n")
  ELSE IF c = Chr("\t") THEN Str("\\t")
  ELSE IF c > 255 THEN UnicodeEscape(c)
  ELSE <<c>>

\* the characters of the literal text of a parse made of RawStrings only
LiteralText == join([i \in 1..Len(items) |-> items[i].s])

\* C12: escaping of literal text: when a translation parses to RawStrings
\* only, plover_to_rtf is the concatenation of the renderings of their
\* characters, each rendered on its own: '{', '}', '\' with a backslash in
\* front, '-' as \_, newline as \n, tab as \t, a code point above 255 as \uN
\* and a space, any other character unchanged.
C12_LiteralEscaping ==
  (status = "done" /\ PloverToRtf /\ \A i \in 1..Len(items) : items[i].t = "RawString") =>
    output = join([k \in 1..Len(LiteralText) |-> Escaped(LiteralText[k])])

C12_Witness ==
  /\ status = "done" /\ PloverToRtf
  /\ tl = <<Chr("-"), 20320>>
  /\ items = <<RawString(tl)>>
  /\ output = Str("\\_\\u20320 ")

NamedKinds == {"Command", "Meta", "Macro"}

\* C13: case folding on parse: the name of every Command, Meta and Macro
\* directive that either parser produces is in lower case.
C13_NamesLowerCase ==
  \A i \in 1..Len(items) :
    items[i].t \in NamedKinds => items[i].s = to_lowercase(items[i].s)

AutoOpen == Str("{\\cxa ")

\* C14: automatic text: rtf_to_plover of a group {\cxa X} with X free of
\* '{', '}' and '\' ends normally and returns X.
C14_AutoText ==
  (RtfToPlover /\ Ended /\ Wrapped(tl, AutoOpen, CloseBrace)
     /\ \A i \in 1..Len(Inner(tl, AutoOpen, CloseBrace)) :
          Inner(tl, AutoOpen, CloseBrace)[i] \notin {Chr("{"), Chr("}"), Chr("\\")}) =>
    status = "done" /\ output = Inner(tl, AutoOpen, CloseBrace)

Keys == [i \in 1..Len(entries) |-> entries[i].steno]

\* C15: first-seen order: after any sequence of add_entry and remove_entry
\* calls, iterating the entries lists the present steno keys in the order in
\* which each was first inserted; add_entry for a steno that is present
\* replaces its translation without changing its position.
C15_FirstSeenOrder == (file = None /\ dstatus = "ready") => Keys = first_seen

\* C16: reverse-index consistency: after any sequence of add_entry,
\* remove_entry and clear, a steno s is in reverse_entries[t] if and only if
\* entries holds s with the translation t; a steno that was removed or
\* overridden is not returned by rev_lookup for its old translation.
C16_ReverseIndex ==
  /\ \A r \in reverse_entries : \A s \in r.stenos :
       lookup(Self, s) = Some(r.translation)
  /\ \A i \in 1..Len(entries) :
       /\ rev_lookup(Self, entries[i].translation) # None
       /\ entries[i].steno \in rev_lookup(Self, entries[i].translation)[1]

\* a steno was overridden with another translation: its old translation is
\* still a key of the reverse index, while the dictionary holds an entry
C16_Witness ==
  /\ file = None /\ Len(entries) = 2
  /\ \E r \in reverse_entries : r.stenos = {}
  /\ \E r \in reverse_entries : Cardinality(r.stenos) = 2

\* the number of strokes of a steno key: its components separated by '/'
Strokes(steno) == key_length(steno) + 1

\* C17: longest-stroke tracking: after any sequence of add_entry,
\* remove_entry and clear, longest_key is the maximum over the steno keys in
\* the dictionary of the number of components separated by '/' (1 for a
\* single stroke), and 0 for the empty dictionary.
C17_LongestKey ==
  IF entries = <<>> THEN longest_key = 0
  ELSE /\ \A i \in 1..Len(entries) : Strokes(entries[i].steno) <= longest_key
       /\ \E i \in 1..Len(entries) : Strokes(entries[i].steno) = longest_key

\* the line of the file for an entry
LineOf(e) ==
  Str("{\\*\\cxs ") \o e.steno \o Str("}") \o plover_to_rtf(e.translation).out
    \o (IF comment(e) = None THEN <<>>
        ELSE Str("{\\*\\cxcomment ") \o comment(e)[1] \o Str("}"))
    \o <<Chr("\n")>>

WriteCalled == dstatus = "written" \/ dstatus = "write panic" \/ dstatus = "write overflow"

\* C18: serialisation: Dictionary::write writes the header with the
\* CRE-system label, then one line per stored entry in iteration order,
\* {\*\cxs STENO} + plover_to_rtf(translation) + the {\*\cxcomment COMMENT}
\* group if and only if the entry has a comment + newline, then the closing
\* brace; no entry is written twice or omitted.
C18_WriteFormat ==
  WriteCalled =>
    /\ dstatus = "written"
    /\ written = Some(Str("{\\rtf1\\ansi{\\*\\cxrev100}\\cxdict{\\*\\cxsystem ") \o cre_system
                      \o Str("}{\\stylesheet{\\s0 Normal;\\s1 Contin;}}") \o <<Chr("\n")>>
                      \o join([i \in 1..Len(entries) |-> LineOf(entries[i])])
                      \o Str("}") \o <<Chr("\n")>>)

ParseReturned == file # None /\ dstatus \notin {"parse panic", "parse overflow", "parse error"}

\* C19: parsing a dictionary file with a valid header that names NAME and N
\* entries with pairwise distinct stenos yields a dictionary with
\* cre_system = NAME and exactly N entries; the translation stored for an
\* entry is rtf_to_plover of its body without the comment group, and its
\* comment is the text of its comment group, absent when it has none.
C19_ParseFile ==
  file # None =>
    /\ ParseReturned
    /\ cre_system = file[1].name
    /\ Len(entries) = Len(file[1].entries)
    /\ \A i \in 1..Len(entries) :
         /\ entries[i].steno = file[1].entries[i].steno
         /\ entries[i].translation = rtf_to_plover(file[1].entries[i].body).out
         /\ comment(entries[i]) = file[1].entries[i].comment

CaretAlone == Str("{^}")
CarryAlone == Str("{~|}")

\* C20: the attach fixup runs if and only if the RTF translation holds the
\* marker {\*\cxplvrortho}: without it rtf_to_plover emits the primitives
\* unfused (\cxds X gives {^}X, X\cxds gives X{^}, \cxds X\cxds gives
\* {^}X{^}, {\*\cxplvrccap}\cxds X gives {~|}{^}X); with it the same bodies
\* give {^X}, {X^}, {^X^}, {~|^X}; the marker itself gives no character.
C20_FixupIffMarker ==
  /\ ReadsAs(Cxds, <<>>, CaretAlone, <<>>)
  /\ ReadsAs(<<>>, Cxds, <<>>, CaretAlone)
  /\ ReadsAs(Cxds, Cxds, CaretAlone, CaretAlone)
  /\ ReadsAs(CCap \o Cxds, <<>>, CarryAlone \o CaretAlone, <<>>)
  /\ ReadsAs(Ortho \o Cxds, <<>>, OpenCaret, CloseBrace)
  /\ ReadsAs(Ortho, Cxds, OpenBrace, CaretClose)
  /\ ReadsAs(Ortho \o Cxds, Cxds, OpenCaret, CaretClose)
  /\ ReadsAs(CCap \o Ortho \o Cxds, <<>>, CarryOpenCaret, CloseBrace)
  /\ (Ended /\ RtfToPlover /\ tl = Ortho) => (status = "done" /\ output = <<>>)

\* \cxds a. without the marker was converted to {^}a.
C20_Witness ==
  /\ status = "done" /\ RtfToPlover
  /\ tl = Cxds \o Str("a.")
  /\ \A i \in 1..Len(items) : items[i].t # "OrthoAttach"
  /\ output = Str("{^}a.")

\* what format_rtf_to_plover gives to the attach fixup
Joined == join([i \in 1..Len(items) |-> ObjectToPlover(items[i])])

\* a Plover string cut into its attach tokens {^} ("attach") and {~|}
\* ("carry"), its runs of text without '{' ("text") and every other '{'
\* ("brace")
RECURSIVE Segments(_)
Segments(s) ==
  IF s = <<>> THEN <<>>
  ELSE IF StartsWith(s, CaretAlone) THEN <<"attach">> \o Segments(Drop(s, 3))
  ELSE IF StartsWith(s, CarryAlone) THEN <<"carry">> \o Segments(Drop(s, 4))
  ELSE IF s[1] = Chr("{") THEN <<"brace">> \o Segments(Tail(s))
  ELSE <<"text">> \o Segments(Drop(s, SpanNotIn(s, {Chr("{")})))

\* {^}X{^}, X{^}, {^}X, {~|}{^}X{^}, {~|}X{^}, {~|}{^}X, {~|}X
Shapes ==
  {<<"attach", "text", "attach">>, <<"text", "attach">>, <<"attach", "text">>,
   <<"carry", "attach", "text", "attach">>, <<"carry", "text", "attach">>,
   <<"carry", "attach", "text">>, <<"carry", "text">>}

FixupCalled == status = "done" /\ RtfToPlover /\ ortho_attach(items)

\* C21: OrthoAttach locality: the attach fixup either leaves the string it
\* is given unchanged or rewrites a whole string of one of the seven shapes,
\* whose text run X holds no '{'; a string with two or more text runs
\* separated by attach tokens, or with any braced token other than {^} and
\* {~|}, is returned unchanged.
C21_FixupLocality ==
  FixupCalled => (output = Joined \/ Segments(Joined) \in Shapes)

\* the fixup was given {^}a{#} and returned it unchanged
C21_Witness ==
  /\ FixupCalled
  /\ Joined = Str("{^}a{#}")
  /\ "brace" \in {Segments(Joined)[i] : i \in 1..Len(Segments(Joined))}
  /\ output = Joined

\* the current conversion is plover_to_rtf of open X }, X without '}', and
\* it has ended; Payload is X
Spelled(open) ==
  /\ PloverToRtf /\ Ended
  /\ Wrapped(tl, open, CloseBrace)
  /\ ~Has(Inner(tl, open, CloseBrace), "}")
Payload(open) == Inner(tl, open, CloseBrace)

\* the conversion has ended normally with the directives and the RTF of
\* the other spelling of its argument
SameAs(other) ==
  /\ status = "done"
  /\ parse_plover(other).st = "ok" /\ items = parse_plover(other).out
  /\ plover_to_rtf(other).st = "ok" /\ output = plover_to_rtf(other).out

MetaCommandOpen == Str("{:command:")
PloverCommandOpen == Str("{plover:")

\* C22: the two Plover spellings of a command are equivalent: for every
\* NAME and ARG, {:command:NAME:ARG} and {plover:NAME:ARG} parse to the same
\* Command directive, the payload being split at the first ':' only, so
\* that an ARG that holds ':' is kept whole.
C22_CommandSpellings ==
  Spelled(MetaCommandOpen) =>
    SameAs(PloverCommandOpen \o Payload(MetaCommandOpen) \o CloseBrace)

MetaCarryOpen == Str("{:carry_capitalize:")

\* the directive of a carry-capitalize body: ^X^ is CarryCapInfix(X), ^X is
\* CarryCapSuffix(X), X^ is CarryCapPrefix(X), any other CarryCapRaw(BODY)
CarryCapOf(body) ==
  IF Len(body) >= 2 /\ StartsWith(body, Caret) /\ EndsWith(body, Caret)
  THEN WithString("CarryCapInfix", SubSeq(body, 2, Len(body) - 1))
  ELSE IF StartsWith(body, Caret) THEN WithString("CarryCapSuffix", Drop(body, 1))
  ELSE IF EndsWith(body, Caret) THEN WithString("CarryCapPrefix", Take(body, Len(body) - 1))
  ELSE WithString("CarryCapRaw", body)

\* C23: the meta spelling and the block spelling of carry-capitalize are
\* equivalent: for every BODY, plover_to_rtf of {:carry_capitalize:BODY} is
\* plover_to_rtf of {~|BODY}, where BODY ^X^ gives CarryCapInfix(X), ^X
\* gives CarryCapSuffix(X), X^ gives CarryCapPrefix(X) and any other BODY
\* gives CarryCapRaw(BODY).
C23_CarryCapSpellings ==
  Spelled(MetaCarryOpen) =>
    /\ SameAs(CarryOpen \o Payload(MetaCarryOpen) \o CloseBrace)
    /\ Payload(MetaCarryOpen) # Caret => items = <<CarryCapOf(Payload(MetaCarryOpen))>>

MetaModeOpen == Str("{:mode:")
ModeOpen == Str("{mode:")

\* C24: the meta spelling {:mode:M} uses the same mapping as the direct
\* spellings {mode:M} and {mode:set_space:X}: for every M and every X, a
\* single space and the empty string included, both spellings parse to the
\* same directive and give the same RTF.
C24_ModeSpellings ==
  Spelled(MetaModeOpen) => SameAs(ModeOpen \o Payload(MetaModeOpen) \o CloseBrace)

\* C25: neither parser ever emits a RawString with empty text: in every
\* directive sequence that the Plover parser or the RTF translation parser
\* returns, every RawString has a non-empty payload.
C25_NoEmptyRawString ==
  status \in {"parsed", "done"} =>
    \A i \in 1..Len(items) : items[i].t = "RawString" => items[i].s # <<>>

\* s is a sequence of braced constructs {X}, each X without '{' and '}'
RECURSIVE BracedSeq(_)
BracedSeq(s) ==
  \/ s = <<>>
  \/ /\ StartsWith(s, OpenBrace) /\ Find(s, CloseBrace) >= 0
     /\ ~Contains(SubSeq(s, 2, Find(s, CloseBrace)), OpenBrace)
     /\ BracedSeq(Drop(s, Find(s, CloseBrace) + 1))

\* no payload of a directive other than literal text holds '}'
NoBraceInPayload(obj) ==
  /\ ~Has(obj.s, "}")
  /\ obj.o1 # None => ~Has(obj.o1[1], "}")
  /\ obj.o2 # None => ~Has(obj.o2[1], "}")

\* C26: every braced directive that the Plover parser recognises ends at
\* the first '}' after its '{': no payload (attach prefix and infix,
\* carry-capitalize prefix and infix, currency prefix) holds '}' or
\* swallows the braced construct after it, so for a and b that are each a
\* sequence of braced constructs the directives of a b are those of a
\* followed by those of b.
C26_BracedEndsAtFirstClose ==
  (PloverToRtf /\ status \in {"parsed", "done"}) =>
    /\ \A i \in 1..Len(items) : items[i].t # "RawString" => NoBraceInPayload(items[i])
    /\ BracedSeq(tl) =>
         \A k \in 1..(Len(tl) - 1) :
           (tl[k] = Chr("}") /\ tl[k + 1] = Chr("{")) =>
             /\ parse_plover(Take(tl, k)).st = "ok"
             /\ parse_plover(Drop(tl, k)).st = "ok"
             /\ items = parse_plover(Take(tl, k)).out \o parse_plover(Drop(tl, k)).out

\* the braces of s that no backslash escapes are matched, d groups being
\* open before s
RECURSIVE Balanced(_, _)
Balanced(s, d) ==
  IF s = <<>> THEN d = 0
  ELSE IF Len(s) >= 2 /\ s[1] = Chr("\\") /\ s[2] \in {Chr("\\"), Chr("{"), Chr("}")}
       THEN Balanced(Drop(s, 2), d)
  ELSE IF s[1] = Chr("{") THEN Balanced(Tail(s), d + 1)
  ELSE IF s[1] = Chr("}") THEN d > 0 /\ Balanced(Tail(s), d - 1)
  ELSE Balanced(Tail(s), d)

\* C27: the RTF that plover_to_rtf produces is brace-balanced: for every
\* Plover input, every '{' of the output that no backslash escapes is
\* matched by a later unescaped '}' and conversely, so that the entry can
\* be put into a dictionary file and read again as one entry body; this
\* holds for SpaceMode with a single space and for the payloads of glue,
\* key combo, meta and command.
C27_BalancedBraces == (status = "done" /\ PloverToRtf) => Balanced(output, 0)

\* the current conversion has returned N(p) = rtf_to_plover(plover_to_rtf(p))
\* for the Plover translation p the chain began with
RoundTripped ==
  /\ status = "done" /\ RtfToPlover /\ Len(history) = 2
  /\ history[1].direction = "plover_to_rtf"

\* rtf_to_plover(plover_to_rtf(p)) returns q
RoundTripsTo(p, q) ==
  /\ plover_to_rtf(p).st = "ok"
  /\ rtf_to_plover(plover_to_rtf(p).out).st = "ok"
  /\ rtf_to_plover(plover_to_rtf(p).out).out = q

\* C28: round-tripping is stable after one pass: with N(p) =
\* rtf_to_plover(plover_to_rtf(p)), for every Plover translation p for which
\* N(p) is defined, N(N(p)) is defined and equals N(p).
C28_RoundTripStable == RoundTripped => RoundTripsTo(output, output)

\* C29: the reverse index never holds an empty set: after any sequence of
\* add_entry, remove_entry and clear, every key of reverse_entries maps to a
\* non-empty set, so that rev_lookup(t) is None exactly when no stored steno
\* has the translation t, both after remove_entry of the last steno of t and
\* after add_entry overrides the last steno of t with another translation.
C29_NoEmptyReverseSet ==
  /\ \A r \in reverse_entries : r.stenos # {}
  /\ \A t \in DictTranslations :
       rev_lookup(Self, t) = None <=> ~\E i \in 1..Len(entries) : entries[i].translation = t

\* the dictionary p is the stored one, each translation in the spelling
\* that one round trip gives it
SameDictionary(p) ==
  /\ p.cre_system = cre_system
  /\ [i \in 1..Len(p.entries) |-> p.entries[i].steno] = Keys
  /\ \A i \in 1..Len(entries) :
       /\ RoundTripsTo(entries[i].translation, p.entries[i].translation)
       /\ comment(p.entries[i]) = comment(entries[i])

\* what parse_rtf returns is that dictionary
ParsesBackTo(p) == p.st = "ok" /\ SameDictionary(p.out)

\* C30: dictionary write/parse round trip: for every dictionary built by
\* add_entry from plain steno keys and well-formed Plover translations,
\* translations that begin or end with a space included, parse_rtf of what
\* Dictionary::write wrote succeeds and yields a dictionary with the same
\* cre_system, the same steno keys in the same order and, for each key, the
\* same translation up to canonical spelling and the same comment.
C30_WriteParseRoundTrip == dstatus = "written" => ParsesBackTo(parse_rtf(written[1]))

====
